---- MODULE Spec2Model ----
(***************************************************************************)
(* Model of the scraping core of Unite-Hub (src/lib/scraping):             *)
(*   web-scraper.py       WebScraper, CompetitorAnalyzer                   *)
(*   safe-scraper.py      SafeScraper, SafeCompetitorAnalyzer              *)
(*   vpn-integration.py   VPNManager, VPNSession (adapter retry policy)    *)
(*   web-scraper-vpn.py   VPNWebScraper                                    *)
(*   playwright-vpn.py    VPNPlaywrightScraper                             *)
(*   competitor-intelligence.py  CompetitorIntelligence                    *)
(*   advanced-scraper.py  JavaScriptScraper, SEOAnalyzer                   *)
(*                                                                         *)
(* Specifications, each over the part of the state it names:               *)
(*   Spec        one SafeScraper session and its cache directory           *)
(*   SpecStatic  one call on a scraper that keeps nothing between calls    *)
(*   SpecShared  two SafeScraper sessions over the one cache directory     *)
(*   SpecEntry   one cache file through lookups, fetches and damage        *)
(*   SpecWrite   overlapping _save_to_cache / _get_cached_response calls   *)
(*   SpecVPN     VPNManager: load_config, add_vpn, rotate_vpn              *)
(*   SpecRotate  two threads calling rotate_vpn on one VPNManager          *)
(*   SpecTransport  the proxy each static or rendered request goes through *)
(*   SpecIntel   one monitor_changes or _analyze_pricing call              *)
(*   SpecRender  one rendered scraper: entry, page operations, exit        *)
(*   SpecPure    one call of an extraction or analysis step                *)
(*                                                                         *)
(* Time is counted in hours.  A page body is identified by the hour at     *)
(* which the server produced it.  The network is nondeterministic: every  *)
(* physical request draws its outcome from Outcomes, and an operation is   *)
(* modelled as the set of all results it can produce.                      *)
(***************************************************************************)
EXTENDS Integers, Sequences, FiniteSets, TLC

\* ------------------------------------------------------------------ bounds
MaxBudget == 2      \* largest max_requests_per_session tried
MaxNow == 48        \* the clock stops advancing here (hours)
MaxPhysical == 1    \* no new physical fetch once more requests than this were issued
MaxBlocks == 2      \* most write calls json.dump needs for one cache file
MaxPool == 3        \* longest VPNManager.vpn_configs
MaxFile == 2        \* most entries under 'vpns' in a configuration file
MaxPages == 3       \* most pages one rendered scraper leaves open
MaxTitle == 61      \* longest page title analysed
MaxDescription == 161 \* longest meta description analysed
MaxWords == 2       \* word counts tried besides those around the thresholds
MaxScripts == 2     \* most script elements with a src on one page
MaxElements == 2    \* most elements in the body of a parsed document

\* ------------------------------------------------- program constants
min_delay == 5
max_delay == 10
CacheTTLHours == 24
StopAfterAttempt == 3
WaitMultiplier == 1
WaitMin == 4
WaitMax == 10
AdapterRetryTotal == 3
TitleMin == 30
TitleMax == 60
DescriptionMin == 120
DescriptionMax == 160
RichAbove == 1000
ThinBelow == 300
StrongSocial == 3
LimitedSocial == 2
SocialPlatforms == 5

\* ---------------------------------------------------------------- inputs
ValidURLs == {"u1", "u2"}
URLs == ValidURLs \cup {"bad"}
\* one page addressed with its two query parameters in either order
QueryURLs == {"u1?a=1&b=2", "u1?b=2&a=1"}
ClockSteps == {24}
Delays == {min_delay, max_delay}

\* validators.url(url): truthy exactly for well-formed URLs
validators_url(url) == url \in ValidURLs \cup QueryURLs

\* outcome of one physical HTTP request: 200 with a body, 200 with an empty
\* body, three error statuses, or no response in time
Outcomes == {"ok", "empty", "s404", "s429", "s503", "timeout"}

VARIABLES
    request_count,   \* SafeScraper.request_count
    max_requests,    \* SafeScraper.max_requests
    cache_enabled,   \* SafeScraper.cache_enabled
    cache,           \* the files of SafeScraper.cache_dir, by URL key
    now,             \* datetime.now(), in hours
    physical_total,  \* physical HTTP requests issued by this session
    fetched,         \* well-formed URLs passed to fetch_page in this session
    last,            \* record of the last call on the safe session
    call,            \* record of the last call on a plain / proxy-bound scraper
    rcs,             \* request_count of each of two sessions sharing cache_dir
    stored_by,       \* which session wrote the file of each URL key
    probe,           \* record of the last call on the shared cache directory
    file,            \* one cache file while _save_to_cache calls overlap
    writers,         \* position of each overlapping _save_to_cache call
    reader,          \* what an overlapping _get_cached_response observed
    vpn_configs,     \* VPNManager.vpn_configs
    current_vpn_index, \* VPNManager.current_vpn_index
    active_vpn,      \* VPNManager.active_vpn
    rot,             \* the rotate_vpn calls made in a row, and where they began
    vpn_call,        \* record of the last call on the VPNManager
    rotators,        \* position of each of two overlapping rotate_vpn calls
    race,            \* the cursor when the first of the overlapping calls began
    session_proxies, \* requests.Session.proxies of the proxy-bound scraper
    browser_proxy,   \* the proxy the running chromium was launched with
    sent,            \* record of the last physical request and its transport
    monitor,         \* record of the last monitor_changes call
    pricing,         \* record of the last _analyze_pricing call
    render,          \* one rendered scraper: what it holds open, its last call
    pure             \* record of the last call of an extraction or analysis step

\* the state of each part of the program
shared_cache_vars == <<rcs, stored_by, probe>>
write_vars == <<file, writers, reader>>
vpn_vars == <<vpn_configs, current_vpn_index, active_vpn, rot, vpn_call>>
rotate_vars == <<rotators, race>>
transport_vars == <<session_proxies, browser_proxy, sent>>
intel_vars == <<monitor, pricing, render, pure>>

vars == <<request_count, max_requests, cache_enabled, cache, now,
          physical_total, fetched, last, call,
          shared_cache_vars, write_vars, vpn_vars,
          rotate_vars, transport_vars, intel_vars>>

\* the state of one SafeScraper session
scraper_vars == <<request_count, max_requests, cache_enabled, cache, now,
                  physical_total, fetched, last, call>>

\* ----------------------------------------------------------- helpers
Max2(a, b) == IF a >= b THEN a ELSE b
Min2(a, b) == IF a <= b THEN a ELSE b

\* -------------------------------------------- web-scraper.py: WebScraper
\* statuses for which response.raise_for_status() raises HTTPError
HTTPErrorStatus == {"s404", "s429", "s503"}
\* Retry(status_forcelist=[429, 500, 502, 503, 504]) of the VPNSession adapter;
\* connection errors and read timeouts of a GET are retried by it as well
AdapterRetried == {"s429", "s503", "timeout"}

\* a wait_exponential that lost its minimum (the bare 1 s, 2 s, 4 s doubling)
wait_exponential_NoMinimum(n) == Min2(WaitMultiplier * (2 ^ (n - 1)), WaitMax)

\* tenacity wait_exponential(multiplier=1, min=4, max=10) after attempt n
wait_exponential(n) ==
    Max2(Max2(0, WaitMin), Min2(WaitMultiplier * (2 ^ (n - 1)), WaitMax))

\* session.get(url, ...): every way one call can go, as [n, out]: the number
\* of physical requests it issued and the outcome of the last of them.
\* retries = 0 is the default adapter of requests.Session(), retries = 3 the
\* adapter mounted by VPNSession.
RECURSIVE SessionGet(_)
SessionGet(retries) ==
    UNION { IF retries > 0 /\ o \in AdapterRetried
            THEN { [n |-> g.n + 1, out |-> g.out] : g \in SessionGet(retries - 1) }
            ELSE { [n |-> 1, out |-> o] } : o \in Outcomes }

\* one execution of the decorated body (lines 67-87): TRUE when it returns
AttemptReturns(out) == out \notin HTTPErrorStatus /\ out # "timeout"

\* the tenacity stop condition stop_after_attempt(3), after attempt n failed
StopRetrying(n) == n >= StopAfterAttempt

\* the @retry loop around the body from attempt n on (url is well-formed):
\* every way it can end.  acc carries the requests issued, the waits slept
\* and the outcome each attempt saw so far.
RECURSIVE RetryLoop(_, _, _, _)
RetryLoop(retries, t, n, acc) ==
    UNION { IF AttemptReturns(g.out)
            THEN { [kind |-> IF g.out = "ok" THEN "html" ELSE "empty",
                    body |-> IF g.out = "ok" THEN t ELSE 0, exc |-> "",
                    phys |-> acc.phys + g.n, attempts |-> n,
                    waits |-> acc.waits, seen |-> Append(acc.seen, g.out)] }
            ELSE IF StopRetrying(n)
            THEN { [kind |-> "raise", body |-> 0, exc |-> "RetryError",
                    phys |-> acc.phys + g.n, attempts |-> n,
                    waits |-> acc.waits, seen |-> Append(acc.seen, g.out)] }
            ELSE RetryLoop(retries, t, n + 1,
                           [phys |-> acc.phys + g.n,
                            waits |-> Append(acc.waits, wait_exponential(n)),
                            seen |-> Append(acc.seen, g.out)])
          : g \in SessionGet(retries) }

\* a fetch_page that lost the validators.url test of lines 67-69
fetch_page_NoValidation(retries, url, t) ==
    RetryLoop(retries, t, 1, [phys |-> 0, waits |-> <<>>, seen |-> <<>>])

\* WebScraper.fetch_page(url) at time t on a session whose adapter retries
\* `retries` times: every result the network can make it produce
fetch_page(retries, url, t) ==
    IF ~validators_url(url)
    THEN { [kind |-> "none", body |-> 0, exc |-> "", phys |-> 0, attempts |-> 1,
            waits |-> <<>>, seen |-> <<>>] }
    ELSE RetryLoop(retries, t, 1, [phys |-> 0, waits |-> <<>>, seen |-> <<>>])

\* WebScraper.scrape_page on top of a fetch result f: the dictionary returned
\* ("page" with the extracted data, "error" for {'error': ..., 'url': url})
ScrapeKind(f) ==
    IF f.kind = "raise" THEN "raise"
    ELSE IF f.kind = "html" THEN "page"
    ELSE "error"

\* ------------------------------------------- safe-scraper.py: SafeScraper
\* a cache file: whether it exists, whether json.load accepts it, which of
\* the fields 'html' and 'timestamp' the loaded object offers, and their values
NoEntry == [present |-> FALSE, readable |-> FALSE, fields |-> "",
            html |-> 0, timestamp |-> 0]

\* SafeScraper._get_cache_key: the md5 digest of the url string as given, one
\* digest per distinct string
_get_cache_key(url) == <<"md5", url>>

\* what open(cache_file, 'w') + json.dump can do: write the record, fail
\* before the file is touched, or fail after truncating it
WriteOutcomes == {"written", "open_failed", "dump_failed"}

\* a freshness test that already rejects an entry exactly 24 hours old
Expired_Inclusive(entry, t) == t - entry.timestamp >= CacheTTLHours

\* the freshness test of line 106, on a readable entry
Expired(entry, t) == t - entry.timestamp > CacheTTLHours

\* the value None of _get_cached_response
CacheMiss == [hit |-> FALSE, html |-> 0, exc |-> ""]

\* a _get_cached_response without the try/except of lines 100-115
_get_cached_response_NoExcept(ce, c, t, url) ==
    IF ~ce \/ ~c[_get_cache_key(url)].present THEN CacheMiss
    ELSE IF ~c[_get_cache_key(url)].readable
    THEN [hit |-> FALSE, html |-> 0, exc |-> "JSONDecodeError"]
    ELSE IF c[_get_cache_key(url)].fields = "no_timestamp"
    THEN [hit |-> FALSE, html |-> 0, exc |-> "KeyError"]
    ELSE IF c[_get_cache_key(url)].fields = "bad_timestamp"
    THEN [hit |-> FALSE, html |-> 0, exc |-> "ValueError"]
    ELSE IF Expired(c[_get_cache_key(url)], t) THEN CacheMiss
    ELSE IF c[_get_cache_key(url)].fields = "no_html"
    THEN [hit |-> FALSE, html |-> 0, exc |-> "KeyError"]
    ELSE [hit |-> TRUE, html |-> c[_get_cache_key(url)].html, exc |-> ""]

\* SafeScraper._get_cached_response: [hit, html, exc].  Every exception of
\* lines 101-111 is caught at line 113 and turned into None.
_get_cached_response(ce, c, t, url) ==
    IF ~ce THEN CacheMiss
    ELSE IF ~c[_get_cache_key(url)].present THEN CacheMiss
    \* json.load raises
    ELSE IF ~c[_get_cache_key(url)].readable THEN CacheMiss
    \* cache_data['timestamp'] raises KeyError, fromisoformat ValueError
    ELSE IF c[_get_cache_key(url)].fields \in {"no_timestamp", "bad_timestamp"}
    THEN CacheMiss
    ELSE IF Expired(c[_get_cache_key(url)], t) THEN CacheMiss
    \* cache_data['html'] raises KeyError
    ELSE IF c[_get_cache_key(url)].fields = "no_html" THEN CacheMiss
    ELSE [hit |-> TRUE, html |-> c[_get_cache_key(url)].html, exc |-> ""]

\* a _save_to_cache that writes every response to the file of "u1"
_save_to_cache_OneFile(ce, c, t, url, html, w) ==
    IF ~ce \/ w # "written" THEN c
    ELSE [c EXCEPT ![_get_cache_key("u1")] =
              [present |-> TRUE, readable |-> TRUE, fields |-> "all",
               html |-> html, timestamp |-> t]]

\* SafeScraper._save_to_cache: the cache directory afterwards
_save_to_cache(ce, c, t, url, html, w) ==
    IF ~ce THEN c
    ELSE IF w = "written"
    THEN [c EXCEPT ![_get_cache_key(url)] =
              [present |-> TRUE, readable |-> TRUE, fields |-> "all",
               html |-> html, timestamp |-> t]]
    ELSE IF w = "dump_failed"
    THEN [c EXCEPT ![_get_cache_key(url)] =
              [present |-> TRUE, readable |-> FALSE, fields |-> "",
               html |-> 0, timestamp |-> 0]]
    ELSE c

\* super().fetch_page(url, custom_headers) of line 193 as its caller sees it:
\* the value returned or the exception, and the requests it took
SuperFetchPage(url, t) ==
    { [kind |-> r.kind, body |-> r.body, exc |-> r.exc, phys |-> r.phys,
       attempts |-> r.attempts] : r \in fetch_page(0, url, t) }

\* a request-limit test that is off by one
LimitReached_OffByOne(rc, mr) == rc > mr

\* the request-limit test of line 176
LimitReached(rc, mr) == rc >= mr

\* the test of line 188 that guards time.sleep(actual_delay)
SleepsFirst(rc) == rc > 0

\* a counter that advances by two for one response
CountAndCache_CountsTwice(rc, ce, c, t, url, slept, r) ==
    IF r.kind = "html"
    THEN { [rc |-> rc + 2, cache |-> _save_to_cache(ce, c, t, url, r.body, w),
            kind |-> r.kind, body |-> r.body, exc |-> r.exc, phys |-> r.phys,
            attempts |-> r.attempts, slept |-> slept, from_cache |-> FALSE]
           : w \in WriteOutcomes }
    ELSE { [rc |-> rc, cache |-> c,
            kind |-> r.kind, body |-> r.body, exc |-> r.exc, phys |-> r.phys,
            attempts |-> r.attempts, slept |-> slept, from_cache |-> FALSE] }

\* lines 195-202: r is what super().fetch_page returned, slept the delay slept
\* before it; every way the cache write can go
CountAndCache(rc, ce, c, t, url, slept, r) ==
    IF r.kind = "html"
    THEN { [rc |-> rc + 1, cache |-> _save_to_cache(ce, c, t, url, r.body, w),
            kind |-> r.kind, body |-> r.body, exc |-> r.exc, phys |-> r.phys,
            attempts |-> r.attempts, slept |-> slept, from_cache |-> FALSE]
           : w \in WriteOutcomes }
    ELSE { [rc |-> rc, cache |-> c,
            kind |-> r.kind, body |-> r.body, exc |-> r.exc, phys |-> r.phys,
            attempts |-> r.attempts, slept |-> slept, from_cache |-> FALSE] }

\* lines 180-183: cached is what _get_cached_response returned
ServeFromCache(rc, c, cached) ==
    [rc |-> rc, cache |-> c, kind |-> "html", body |-> cached.html,
     exc |-> "", phys |-> 0, attempts |-> 0, slept |-> 0, from_cache |-> TRUE]

\* SafeScraper.fetch_page(url) in session state (rc, mr, ce, c) at time t:
\* every pair of session state afterwards and result for the caller
SafeFetchPage(rc, mr, ce, c, t, url) ==
    IF LimitReached(rc, mr)
    THEN { [rc |-> rc, cache |-> c, kind |-> "none", body |-> 0, exc |-> "",
            phys |-> 0, attempts |-> 0, slept |-> 0, from_cache |-> FALSE] }
    ELSE IF _get_cached_response(ce, c, t, url).hit
    THEN { ServeFromCache(rc, c, _get_cached_response(ce, c, t, url)) }
    ELSE UNION { CountAndCache(rc, ce, c, t, url, slept, r)
                 : slept \in (IF SleepsFirst(rc) THEN Delays ELSE {0}),
                   r \in SuperFetchPage(url, t) }

\* lines 257-277 of analyze_website: f1 is the fetch inside scrape_page, f2
\* the second fetch_page(url), whose result goes to parse_html
AnalyzeSecond(f1, f2) ==
    IF f2.kind = "raise"
    THEN [rc |-> f2.rc, cache |-> f2.cache, kind |-> "raise",
          exc |-> f2.exc, phys |-> f1.phys + f2.phys, second |-> "raise"]
    ELSE IF f2.kind = "none"
    THEN \* parse_html(None): BeautifulSoup(None, 'lxml') raises TypeError
         [rc |-> f2.rc, cache |-> f2.cache, kind |-> "raise",
          exc |-> "TypeError", phys |-> f1.phys + f2.phys, second |-> "none"]
    ELSE [rc |-> f2.rc, cache |-> f2.cache, kind |-> "report",
          exc |-> "", phys |-> f1.phys + f2.phys,
          second |-> IF f2.from_cache THEN "cache" ELSE "network"]

\* lines 252-255 of analyze_website: f1 is the fetch inside scrape_page
AnalyzeFirst(mr, ce, t, url, f1) ==
    IF ScrapeKind(f1) # "page"
    THEN { [rc |-> f1.rc, cache |-> f1.cache, kind |-> ScrapeKind(f1),
            exc |-> f1.exc, phys |-> f1.phys, second |-> "skipped"] }
    ELSE { AnalyzeSecond(f1, f2)
           : f2 \in SafeFetchPage(f1.rc, mr, ce, f1.cache, t, url) }

\* SafeCompetitorAnalyzer.analyze_website(url): every outcome
SafeAnalyzeWebsite(rc, mr, ce, c, t, url) ==
    UNION { AnalyzeFirst(mr, ce, t, url, f1)
            : f1 \in SafeFetchPage(rc, mr, ce, c, t, url) }

\* ------------------------------------------------------------ the state
EmptyCache == [k \in {_get_cache_key(u) : u \in URLs \cup QueryURLs} |-> NoEntry]

NoLast == [op |-> "none", url |-> "bad", kind |-> "none", exc |-> "", body |-> 0,
           phys |-> 0, attempts |-> 0, slept |-> 0, from_cache |-> FALSE,
           second |-> "", rc_before |-> 0, fresh_before |-> FALSE,
           body_before |-> 0, cache_same |-> TRUE, others_same |-> TRUE,
           new_url |-> FALSE]
NoCall == [op |-> "none", session |-> "plain", url |-> "bad", kind |-> "none",
           exc |-> "", body |-> 0, phys |-> 0, attempts |-> 0,
           waits |-> <<>>, seen |-> <<>>]

\* two SafeScraper objects alive at once; cache_dir is the same path for both
Sessions == {"A", "B"}

NoProbe == [op |-> "none", session |-> "A", url |-> "u1?a=1&b=2",
            kind |-> "none", exc |-> "", hit |-> FALSE, html |-> 0,
            from_cache |-> FALSE, phys |-> 0, entry_before |-> NoEntry,
            rc_before |-> 0, other_rc_same |-> TRUE, variant_fresh |-> FALSE]

\* two _save_to_cache calls for one key, by sessions that fetched the page
\* at different moments; "old" is the session that stored the file before
Writers == {"A", "B"}

\* the bytes of the complete record of e when it takes n write calls:
\* json.dump hands its chunks to a buffered text file, which passes them on
\* block by block and at close, the more blocks the longer the response
ContentOf(e, n) == [i \in 1..n |-> <<e, i, n>>]

NoRead == [op |-> "none", hit |-> FALSE, content |-> "none",
           started |-> {}, finished |-> {}]

\* the rotate_vpn calls made since the last other call on the manager
NoRot == [count |-> 0, start_active |-> "none", indices |-> <<>>,
          actives |-> <<>>, ret |-> "none"]

\* VPNManager.get_proxy_dict(): the proxy URL of an endpoint, and the mapping
\* from URL scheme to proxy URL handed to requests (empty without an endpoint)
proxy_url(vpn) == <<"proxy_url", vpn>>

get_proxy_dict_ProxyForNone(vpn) ==
    {<<"http", proxy_url(vpn)>>, <<"https", proxy_url(vpn)>>}

get_proxy_dict(vpn) ==
    IF vpn = "none" THEN {}
    ELSE {<<"http", proxy_url(vpn)>>, <<"https", proxy_url(vpn)>>}

\* the last call on the manager: what it was given, what the manager held
\* beforehand, what it returned and the mapping get_proxy_dict() gives after it
NoFile == [readable |-> FALSE, vpns |-> <<>>]

NoVpnCall == [op |-> "none", file |-> NoFile, raised |-> FALSE,
              pool_before |-> <<>>, idx_before |-> 0,
              active_before |-> "none", ret |-> "none", proxies |-> {}]

\* two threads that share one VPNManager and call rotate_vpn
Callers == {"t1", "t2"}

\* a caller before its call: idx and elem are the values it has read
NoRotator == [pc |-> "ready", idx |-> 0, elem |-> "none", ret |-> "none",
              at_cursor |-> "none"]

NoRace == [started |-> FALSE, cursor |-> 0]

\* the transport of a physical request: a proxy URL or the direct connection;
\* Closed is the browser before launch and after close
Direct == <<"direct", "none">>
Closed == <<"closed", "none">>

\* session.proxies before any VPNSession is constructed
NoSession == {<<"no session", Closed>>}

\* the last call on a proxy-bound scraper: each physical request it issued,
\* with its transport and the manager's active endpoint at that moment, and
\* the vpn_used field of a rendered result; ret is the status of the response
\* a static call returned, or "raises"; a static call also records the
\* manager's cursor and active endpoint when it ended, as after
NoSent == [op |-> "none", requests |-> <<>>, vpn_used |-> "none",
                ret |-> "none", auto_rotate |-> FALSE]

\* no monitor_changes / _analyze_pricing call made yet
NoMonitor == [op |-> "none"]

NoPricing == [op |-> "none"]

\* a rendered scraper before 'async with': nothing started, no page open
NoRender == [cls |-> "none", phase |-> "new", driver |-> FALSE,
             browser |-> FALSE, context |-> FALSE, pages |-> 0,
             op |-> "none", wait_for |-> FALSE, execute_script |-> FALSE,
             outcome |-> "none", navigations |-> 0, result |-> "none",
             pages_before |-> 0]

\* no extraction or analysis step called yet
NoPure == [op |-> "none"]

Init ==
    /\ request_count = 0
    /\ max_requests \in 1..MaxBudget
    /\ cache_enabled \in BOOLEAN
    /\ cache = EmptyCache
    /\ now = 0
    /\ physical_total = 0
    /\ fetched = {}
    /\ last = NoLast
    /\ call = NoCall
    /\ rcs = [s \in Sessions |-> 0]
    /\ stored_by = [u \in QueryURLs |-> "none"]
    /\ probe = NoProbe
    /\ file = [exists |-> TRUE, bytes |-> ContentOf("old", 1)]
    /\ writers = [w \in Writers |-> [pc |-> "idle", pos |-> 0, blocks |-> 0]]
    /\ reader = NoRead
    /\ vpn_configs = <<>>
    /\ current_vpn_index = 0
    /\ active_vpn = "none"
    /\ rot = NoRot
    /\ vpn_call = NoVpnCall
    /\ rotators = [c \in Callers |-> NoRotator]
    /\ race = NoRace
    /\ session_proxies = NoSession
    /\ browser_proxy = Closed
    /\ sent = NoSent
    /\ monitor = NoMonitor
    /\ pricing = NoPricing
    /\ render = NoRender
    /\ pure = NoPure

\* the files of all keys but url's are the same in directories c and d
OthersSame(c, d, url) ==
    \A k \in DOMAIN c : k # _get_cache_key(url) => d[k] = c[k]

\* what the caller of the step saw beforehand, kept with the result
Before(url) ==
    [rc_before |-> request_count,
     fresh_before |-> _get_cached_response(cache_enabled, cache, now, url).hit,
     body_before |-> _get_cached_response(cache_enabled, cache, now, url).html,
     new_url |-> url \notin fetched]

\* a call can issue a physical request only past the limit test, the cache
\* lookup and the URL validation
Reaches(url) ==
    /\ ~LimitReached(request_count, max_requests)
    /\ ~_get_cached_response(cache_enabled, cache, now, url).hit
    /\ validators_url(url)

\* SafeScraper(...) is constructed: a new session over the same cache directory
NewSession ==
    \E mr \in 1..MaxBudget, ce \in BOOLEAN :
        /\ request_count' = 0
        /\ max_requests' = mr
        /\ cache_enabled' = ce
        /\ physical_total' = 0
        /\ fetched' = {}
        /\ last' = NoLast
        /\ UNCHANGED <<cache, now, call>>
        /\ UNCHANGED <<shared_cache_vars, write_vars, vpn_vars,
                   rotate_vars, transport_vars, intel_vars>>

\* time passes between two calls
Tick ==
    \E step \in ClockSteps :
        /\ now + step <= MaxNow
        /\ now' = now + step
        /\ last' = NoLast
        /\ UNCHANGED <<request_count, max_requests, cache_enabled, cache,
                       physical_total, fetched, call>>
        /\ UNCHANGED <<shared_cache_vars, write_vars, vpn_vars,
                   rotate_vars, transport_vars, intel_vars>>

\* scraper.fetch_page(url) on the safe session
SafeFetch ==
    \E url \in URLs :
     /\ Reaches(url) => physical_total <= MaxPhysical
     /\ \E f \in SafeFetchPage(request_count, max_requests, cache_enabled,
                               cache, now, url),
           b \in {Before(url)} :
            /\ request_count' = f.rc
            /\ cache' = f.cache
            /\ physical_total' = physical_total + f.phys
            /\ fetched' = fetched \cup ({url} \cap ValidURLs)
            /\ last' = [op |-> "fetch_page", url |-> url, kind |-> f.kind,
                        exc |-> f.exc, body |-> f.body, phys |-> f.phys,
                        attempts |-> f.attempts, slept |-> f.slept,
                        from_cache |-> f.from_cache, second |-> "",
                        rc_before |-> b.rc_before,
                        fresh_before |-> b.fresh_before,
                        body_before |-> b.body_before,
                        cache_same |-> (f.cache = cache),
                        others_same |-> OthersSame(cache, f.cache, url),
                        new_url |-> b.new_url]
            /\ UNCHANGED <<max_requests, cache_enabled, now, call>>
            /\ UNCHANGED <<shared_cache_vars, write_vars, vpn_vars,
                   rotate_vars, transport_vars, intel_vars>>

\* SafeCompetitorAnalyzer.analyze_website(url); the analyzer builds its scraper
\* with cache_enabled=True
SafeAnalyze ==
    /\ cache_enabled
    /\ \E url \in URLs :
     /\ Reaches(url) => physical_total <= MaxPhysical
     /\ \E a \in SafeAnalyzeWebsite(request_count, max_requests, cache_enabled,
                                    cache, now, url),
           b \in {Before(url)} :
            /\ request_count' = a.rc
            /\ cache' = a.cache
            /\ physical_total' = physical_total + a.phys
            /\ fetched' = fetched \cup ({url} \cap ValidURLs)
            /\ last' = [op |-> "analyze_website", url |-> url, kind |-> a.kind,
                        exc |-> a.exc, body |-> 0, phys |-> a.phys,
                        attempts |-> 0, slept |-> 0,
                        from_cache |-> FALSE, second |-> a.second,
                        rc_before |-> b.rc_before,
                        fresh_before |-> b.fresh_before,
                        body_before |-> b.body_before,
                        cache_same |-> (a.cache = cache),
                        others_same |-> OthersSame(cache, a.cache, url),
                        new_url |-> b.new_url]
            /\ UNCHANGED <<max_requests, cache_enabled, now, call>>
            /\ UNCHANGED <<shared_cache_vars, write_vars, vpn_vars,
                   rotate_vars, transport_vars, intel_vars>>

Next == NewSession \/ Tick \/ SafeFetch \/ SafeAnalyze

Spec == Init /\ [][Next]_vars

\* ------------------------------- plain and proxy-bound scrapers (no session
\* state): WebScraper, VPNWebScraper, CompetitorAnalyzer
\* the URL does not matter to a scraper without cache: one of each kind
StaticURLs == {"u1", "bad"}

\* CompetitorAnalyzer.analyze_website(url): every outcome.  f1 is the fetch
\* inside scrape_page, f2 the second fetch_page(url) given to parse_html.
AnalyzeWebsite(url, t) ==
    UNION { IF ScrapeKind(f1) # "page"
            THEN { [kind |-> ScrapeKind(f1), exc |-> f1.exc, phys |-> f1.phys,
                    attempts |-> f1.attempts] }
            ELSE { [kind |-> IF f2.kind = "raise" THEN "raise" ELSE "report",
                    exc |-> f2.exc, phys |-> f1.phys + f2.phys,
                    attempts |-> f1.attempts + f2.attempts]
                   : f2 \in fetch_page(0, url, t) }
          : f1 \in fetch_page(0, url, t) }

\* WebScraper().fetch_page(url): the session is requests.Session()
StaticFetch ==
    /\ call.op = "none"
    /\ \E url \in StaticURLs :
      \E r \in fetch_page(0, url, now) :
        call' = [op |-> "fetch_page", session |-> "plain", url |-> url,
                    kind |-> r.kind, exc |-> r.exc, body |-> r.body,
                    phys |-> r.phys, attempts |-> r.attempts,
                    waits |-> r.waits, seen |-> r.seen]
    /\ UNCHANGED <<request_count, max_requests, cache_enabled, cache, now,
                   physical_total, fetched, last>>
    /\ UNCHANGED <<shared_cache_vars, write_vars, vpn_vars,
                   rotate_vars, transport_vars, intel_vars>>

\* WebScraper().scrape_page(url)
StaticScrape ==
    /\ call.op = "none"
    /\ \E url \in StaticURLs :
      \E r \in fetch_page(0, url, now) :
        call' = [op |-> "scrape_page", session |-> "plain", url |-> url,
                    kind |-> ScrapeKind(r), exc |-> r.exc, body |-> r.body,
                    phys |-> r.phys, attempts |-> r.attempts,
                    waits |-> r.waits, seen |-> r.seen]
    /\ UNCHANGED <<request_count, max_requests, cache_enabled, cache, now,
                   physical_total, fetched, last>>
    /\ UNCHANGED <<shared_cache_vars, write_vars, vpn_vars,
                   rotate_vars, transport_vars, intel_vars>>

\* VPNWebScraper(config with a non-empty pool).fetch_page(url): __init__ has
\* replaced the session by VPNSession(...).session, whose adapter carries
\* Retry(total=3, ...).  The outcomes the attempts saw are not recorded here.
VPNFetch ==
    /\ call.op = "none"
    /\ \E url \in StaticURLs :
      \E r \in fetch_page(AdapterRetryTotal, url, now) :
        call' = [op |-> "fetch_page", session |-> "vpn", url |-> url,
                    kind |-> r.kind, exc |-> r.exc, body |-> r.body,
                    phys |-> r.phys, attempts |-> r.attempts,
                    waits |-> r.waits, seen |-> <<>>]
    /\ UNCHANGED <<request_count, max_requests, cache_enabled, cache, now,
                   physical_total, fetched, last>>
    /\ UNCHANGED <<shared_cache_vars, write_vars, vpn_vars,
                   rotate_vars, transport_vars, intel_vars>>

\* CompetitorAnalyzer().analyze_website(url)
StaticAnalyze ==
    /\ call.op = "none"
    /\ \E url \in StaticURLs :
      \E a \in AnalyzeWebsite(url, now) :
        call' = [op |-> "analyze_website", session |-> "plain", url |-> url,
                    kind |-> a.kind, exc |-> a.exc, body |-> 0,
                    phys |-> a.phys, attempts |-> a.attempts,
                    waits |-> <<>>, seen |-> <<>>]
    /\ UNCHANGED <<request_count, max_requests, cache_enabled, cache, now,
                   physical_total, fetched, last>>
    /\ UNCHANGED <<shared_cache_vars, write_vars, vpn_vars,
                   rotate_vars, transport_vars, intel_vars>>

\* these scrapers keep nothing between calls: each behaviour is one call on a
\* freshly constructed scraper
NextStatic == StaticFetch \/ StaticScrape \/ VPNFetch \/ StaticAnalyze

SpecStatic == Init /\ [][NextStatic]_vars

\* ----------------- two sessions over one cache directory (safe-scraper.py)
\* cache_dir is Path(__file__).parent / '.cache' for every SafeScraper (line
\* 59): two scrapers, in one process or in two runs of the command line, read
\* and write the same files.

\* ways a stored file can be malformed: not JSON at all, or a JSON object
\* without 'html', without 'timestamp', or with a timestamp fromisoformat
\* rejects
Damages == {"bad_json", "no_html", "no_timestamp", "bad_timestamp"}

\* entry e after damage d; what the lookup can no longer read is dropped
Damaged(e, d) ==
    [present |-> TRUE, readable |-> d # "bad_json",
     fields |-> IF d = "bad_json" THEN "" ELSE d, html |-> 0, timestamp |-> 0]

\* the entry json.load and the two field reads accept
Intact(e) == e.present /\ e.readable /\ e.fields = "all"

\* both scrapers were built with the same arguments, caching on (the
\* defaults of SafeScraper.__init__ but for the request limit)
InitShared == Init /\ max_requests = MaxBudget /\ cache_enabled

\* time passes between two calls
TickShared ==
    \E step \in ClockSteps :
        /\ now + step <= MaxNow
        /\ now' = now + step
        /\ probe' = NoProbe
        /\ UNCHANGED <<request_count, max_requests, cache_enabled, cache,
                       physical_total, fetched, last, call, rcs, stored_by>>
        /\ UNCHANGED <<write_vars, vpn_vars, rotate_vars, transport_vars, intel_vars>>

\* a stored file of one of the URLs U is damaged from outside the program
DamageOf(U) ==
    \E url \in U, d \in Damages :
        /\ Intact(cache[_get_cache_key(url)])
        /\ cache' = [cache EXCEPT ![_get_cache_key(url)] = Damaged(@, d)]
        /\ probe' = NoProbe
        /\ UNCHANGED <<request_count, max_requests, cache_enabled, now,
                       physical_total, fetched, last, call, rcs, stored_by>>
        /\ UNCHANGED <<write_vars, vpn_vars, rotate_vars, transport_vars, intel_vars>>

\* a session of S calls _get_cached_response(url), url in U
GetBy(S, U) ==
    \E s \in S, url \in U :
      \E g \in {_get_cached_response(cache_enabled, cache, now, url)} :
        /\ probe' = [op |-> "get", session |-> s, url |-> url,
                     kind |-> IF g.hit THEN "html" ELSE "none", exc |-> g.exc,
                     hit |-> g.hit, html |-> g.html, from_cache |-> g.hit,
                     phys |-> 0, entry_before |-> cache[_get_cache_key(url)],
                     rc_before |-> rcs[s], other_rc_same |-> TRUE,
                     variant_fresh |-> FALSE]
        /\ UNCHANGED <<request_count, max_requests, cache_enabled, cache, now,
                       physical_total, fetched, last, call, rcs, stored_by>>
        /\ UNCHANGED <<write_vars, vpn_vars, rotate_vars, transport_vars, intel_vars>>

\* a session of S calls fetch_page(url), url in U
FetchBy(S, U) ==
    \E s \in S, url \in U :
      \E f \in SafeFetchPage(rcs[s], max_requests, cache_enabled, cache, now, url) :
        /\ rcs' = [rcs EXCEPT ![s] = f.rc]
        /\ cache' = f.cache
        /\ stored_by' = IF f.cache # cache
                        THEN [stored_by EXCEPT ![url] = s] ELSE stored_by
        /\ probe' = [op |-> "fetch", session |-> s, url |-> url,
                     kind |-> f.kind, exc |-> f.exc,
                     hit |-> f.from_cache, html |-> f.body,
                     from_cache |-> f.from_cache, phys |-> f.phys,
                     entry_before |-> cache[_get_cache_key(url)],
                     rc_before |-> rcs[s],
                     other_rc_same |->
                         \A o \in Sessions \ {s} : rcs'[o] = rcs[o],
                     variant_fresh |->
                         \E v \in QueryURLs :
                             _get_cached_response(cache_enabled, cache, now, v).hit]
        /\ UNCHANGED <<request_count, max_requests, cache_enabled, now,
                       physical_total, fetched, last, call>>
        /\ UNCHANGED <<write_vars, vpn_vars, rotate_vars, transport_vars, intel_vars>>

\* two sessions fetch the two spellings of one page
SharedFetch == FetchBy(Sessions, QueryURLs)

NextShared == TickShared \/ SharedFetch

SpecShared == InitShared /\ [][NextShared]_vars

\* one session and the file of one URL, which may be damaged between calls
EntryURLs == {"u1?a=1&b=2"}

EntryDamage == DamageOf(EntryURLs)

EntryGet == GetBy({"A"}, EntryURLs)

EntryFetch == FetchBy({"A"}, EntryURLs)

NextEntry == TickShared \/ EntryDamage \/ EntryGet \/ EntryFetch

SpecEntry == InitShared /\ [][NextEntry]_vars

\* ------------- overlapping calls on one cache file (safe-scraper.py)
\* _save_to_cache opens the cache file itself with mode 'w' (line 132) and
\* writes the record into it (line 133); there is no lock and no temporary
\* file.  _get_cached_response reads whatever the file holds (lines 101-102).

\* write(2) of block v at 0-based offset p: bytes beyond the end of the file
\* leave a hole of NULs before them
WriteAt(bytes, p, v) ==
    [i \in 1..Max2(Len(bytes), p + 1) |->
        IF i = p + 1 THEN v
        ELSE IF i <= Len(bytes) THEN bytes[i]
        ELSE <<"nul", 0, 0>>]

\* json.load on the bytes: the record they spell, "none" when they are not
\* one complete JSON object
json_load(bytes) ==
    IF bytes # <<>> /\ bytes = ContentOf(bytes[1][1], Len(bytes))
    THEN bytes[1][1]
    ELSE "none"

\* line 132: open(cache_file, 'w') creates or truncates the file
SaveOpen ==
    \E w \in Writers, n \in 1..MaxBlocks :
        /\ writers[w].pc = "idle"
        /\ file' = [exists |-> TRUE, bytes |-> <<>>]
        /\ writers' = [writers EXCEPT ![w] =
                          [pc |-> "writing", pos |-> 0, blocks |-> n]]
        /\ reader' = NoRead
        /\ UNCHANGED <<request_count, max_requests, cache_enabled, cache, now,
                       physical_total, fetched, last, call>>
        /\ UNCHANGED <<shared_cache_vars, vpn_vars, rotate_vars, transport_vars,
                   intel_vars>>

\* line 133 and the close of line 132: the next block goes out at the
\* writer's own file offset; after the last one the call returns
SaveDump ==
    \E w \in Writers :
        /\ writers[w].pc = "writing"
        /\ file' = [file EXCEPT
                       !.bytes = WriteAt(@, writers[w].pos,
                                         <<w, writers[w].pos + 1,
                                           writers[w].blocks>>)]
        /\ writers' = [writers EXCEPT
                          ![w].pc = IF writers[w].pos + 1 = writers[w].blocks
                                    THEN "done" ELSE "writing",
                          ![w].pos = writers[w].pos + 1]
        /\ reader' = NoRead
        /\ UNCHANGED <<request_count, max_requests, cache_enabled, cache, now,
                       physical_total, fetched, last, call>>
        /\ UNCHANGED <<shared_cache_vars, vpn_vars, rotate_vars, transport_vars,
                   intel_vars>>

\* a third session calls _get_cached_response for the key (entry not expired)
ConcurrentGet ==
    /\ reader' = [op |-> "get",
                  hit |-> file.exists /\ json_load(file.bytes) # "none",
                  content |-> IF file.exists THEN json_load(file.bytes)
                              ELSE "none",
                  started |-> {w \in Writers : writers[w].pc # "idle"},
                  finished |-> {w \in Writers : writers[w].pc = "done"}]
    /\ UNCHANGED <<request_count, max_requests, cache_enabled, cache, now,
                   physical_total, fetched, last, call, file, writers>>
    /\ UNCHANGED <<shared_cache_vars, vpn_vars, rotate_vars, transport_vars,
                   intel_vars>>

NextWrite == SaveOpen \/ SaveDump \/ ConcurrentGet

SpecWrite == InitShared /\ [][NextWrite]_vars

\* --------------------------------- vpn-integration.py: VPNManager
\* Init is the manager after VPNManager() without a configuration file;
\* VPNManager(config_file) is that followed by load_config(config_file).
Endpoints == {"a", "b"}

\* one element of config_data['vpns']: an endpoint with its 'enabled' flag, or
\* an object without one of the keys 'protocol', 'host', 'port'
ConfigEntries ==
    [name : Endpoints, enabled : BOOLEAN, complete : {TRUE}]
        \cup {[name |-> "a", enabled |-> TRUE, complete |-> FALSE]}

\* what load_config can find at the path: a JSON file with up to MaxFile
\* entries, or something open / json.load reject
ConfigFiles ==
    { [readable |-> TRUE, vpns |-> v]
        : v \in UNION { [1..n -> ConfigEntries] : n \in 0..MaxFile } }
    \cup { NoFile }

\* the loop of lines 61-73 from entry i on: the pool afterwards and whether
\* an entry raised (KeyError at lines 63-65)
RECURSIVE LoadLoop(_, _, _)
LoadLoop(pool, vpns, i) ==
    IF i > Len(vpns) THEN [pool |-> pool, raised |-> FALSE]
    ELSE IF ~vpns[i].complete THEN [pool |-> pool, raised |-> TRUE]
    ELSE LoadLoop(IF vpns[i].enabled THEN Append(pool, vpns[i].name) ELSE pool,
                  vpns, i + 1)

\* VPNManager.load_config(config_file)
LoadConfig ==
    \E f \in ConfigFiles :
      \E r \in {LoadLoop(vpn_configs, f.vpns, 1)} :
        /\ Len(vpn_configs) + Len(f.vpns) <= MaxPool
        /\ vpn_configs' = r.pool
        \* lines 78-80 are reached only when nothing raised
        /\ active_vpn' = IF f.readable /\ ~r.raised /\ r.pool # <<>>
                         THEN r.pool[1] ELSE active_vpn
        /\ rot' = NoRot
        /\ vpn_call' = [op |-> "load_config", file |-> f, raised |-> r.raised,
                        pool_before |-> vpn_configs,
                        idx_before |-> current_vpn_index,
                        active_before |-> active_vpn, ret |-> "none",
                        proxies |-> get_proxy_dict(active_vpn')]
        /\ UNCHANGED current_vpn_index
        /\ UNCHANGED <<request_count, max_requests, cache_enabled, cache, now,
                       physical_total, fetched, last, call>>
        /\ UNCHANGED <<shared_cache_vars, write_vars, rotate_vars, transport_vars,
                   intel_vars>>

\* VPNManager.add_vpn(vpn)
AddVpn ==
    \E e \in Endpoints, enabled \in BOOLEAN :
        /\ Len(vpn_configs) < MaxPool
        /\ vpn_configs' = IF enabled THEN Append(vpn_configs, e) ELSE vpn_configs
        /\ active_vpn' = IF enabled /\ active_vpn = "none" THEN e ELSE active_vpn
        /\ rot' = NoRot
        /\ vpn_call' = [op |-> "add_vpn", file |-> NoFile, raised |-> FALSE,
                        pool_before |-> vpn_configs,
                        idx_before |-> current_vpn_index,
                        active_before |-> active_vpn, ret |-> "none",
                        proxies |-> get_proxy_dict(active_vpn')]
        /\ UNCHANGED current_vpn_index
        /\ UNCHANGED <<request_count, max_requests, cache_enabled, cache, now,
                       physical_total, fetched, last, call>>
        /\ UNCHANGED <<shared_cache_vars, write_vars, rotate_vars, transport_vars,
                   intel_vars>>

\* VPNManager.rotate_vpn(), on an empty pool (lines 163-164): the manager
rotate_vpn_empty ==
    /\ vpn_configs = <<>>
    /\ rot' = NoRot
    /\ vpn_call' = [op |-> "rotate_vpn", file |-> NoFile, raised |-> FALSE,
                    pool_before |-> vpn_configs,
                    idx_before |-> current_vpn_index,
                    active_before |-> active_vpn, ret |-> "none",
                    proxies |-> get_proxy_dict(active_vpn)]
    /\ UNCHANGED <<vpn_configs, current_vpn_index, active_vpn>>

RotateEmpty ==
    /\ rotate_vpn_empty
    /\ UNCHANGED <<request_count, max_requests, cache_enabled, cache, now,
                   physical_total, fetched, last, call>>
    /\ UNCHANGED <<shared_cache_vars, write_vars, rotate_vars, transport_vars,
                   intel_vars>>

\* VPNManager.rotate_vpn(), lines 166-171: the manager
rotate_vpn_next ==
    /\ vpn_configs # <<>>
    /\ current_vpn_index' = (current_vpn_index + 1) % Len(vpn_configs)
    /\ active_vpn' = vpn_configs[current_vpn_index' + 1]
    /\ rot' = IF rot.count \in 1..(Len(vpn_configs) - 1)
              THEN [count |-> rot.count + 1,
                    start_active |-> rot.start_active,
                    indices |-> Append(rot.indices, current_vpn_index'),
                    actives |-> Append(rot.actives, active_vpn'),
                    ret |-> active_vpn']
              ELSE [count |-> 1, start_active |-> active_vpn,
                    indices |-> <<current_vpn_index'>>,
                    actives |-> <<active_vpn'>>, ret |-> active_vpn']
    /\ vpn_call' = [op |-> "rotate_vpn", file |-> NoFile, raised |-> FALSE,
                    pool_before |-> vpn_configs,
                    idx_before |-> current_vpn_index,
                    active_before |-> active_vpn, ret |-> active_vpn',
                    proxies |-> get_proxy_dict(active_vpn')]
    /\ UNCHANGED vpn_configs

\* VPNManager.rotate_vpn()
rotate_vpn == rotate_vpn_empty \/ rotate_vpn_next

RotateVpn ==
    /\ rotate_vpn_next
    /\ UNCHANGED <<request_count, max_requests, cache_enabled, cache, now,
                   physical_total, fetched, last, call>>
    /\ UNCHANGED <<shared_cache_vars, write_vars, rotate_vars, transport_vars,
                   intel_vars>>

NextVPN == LoadConfig \/ AddVpn \/ RotateEmpty \/ RotateVpn

SpecVPN == InitShared /\ [][NextVPN]_vars

\* ------------- vpn-integration.py: rotate_vpn called from two threads
\* rotate_vpn holds no lock: between any two of its reads and writes of the
\* manager's fields the other thread may run. One action per read or write.
AllReady == \A c \in Callers : rotators[c].pc = "ready"

\* the pool is filled by add_vpn before the threads start
AddBeforeRotate == AllReady /\ AddVpn

\* line 163: if not self.vpn_configs: return None
RotCheck(c) ==
    /\ rotators[c].pc = "ready"
    /\ rotators' = [rotators EXCEPT ![c].pc =
                        IF vpn_configs = <<>> THEN "done" ELSE "read"]
    /\ race' = IF race.started THEN race
               ELSE [started |-> TRUE, cursor |-> current_vpn_index]
    /\ UNCHANGED <<scraper_vars, shared_cache_vars, write_vars, vpn_vars,
                   transport_vars, intel_vars>>

\* line 166, right-hand side: read self.current_vpn_index
RotReadIndex(c) ==
    /\ rotators[c].pc = "read"
    /\ rotators' = [rotators EXCEPT ![c].pc = "write",
                                    ![c].idx = current_vpn_index]
    /\ UNCHANGED <<scraper_vars, shared_cache_vars, write_vars, vpn_vars,
                   race, transport_vars, intel_vars>>

\* line 166, the store: self.current_vpn_index = (read + 1) % len
RotWriteIndex(c) ==
    /\ rotators[c].pc = "write"
    /\ current_vpn_index' = (rotators[c].idx + 1) % Len(vpn_configs)
    /\ rotators' = [rotators EXCEPT ![c].pc = "pick"]
    /\ UNCHANGED <<vpn_configs, active_vpn, rot, vpn_call>>
    /\ UNCHANGED <<scraper_vars, shared_cache_vars, write_vars,
                   race, transport_vars, intel_vars>>

\* line 167, right-hand side: self.vpn_configs[self.current_vpn_index]
RotPick(c) ==
    /\ rotators[c].pc = "pick"
    /\ rotators' = [rotators EXCEPT ![c].pc = "set",
                        ![c].elem = vpn_configs[current_vpn_index + 1]]
    /\ UNCHANGED <<scraper_vars, shared_cache_vars, write_vars, vpn_vars,
                   race, transport_vars, intel_vars>>

\* line 167, the store: self.active_vpn = the element picked
RotSetActive(c) ==
    /\ rotators[c].pc = "set"
    /\ active_vpn' = rotators[c].elem
    /\ rotators' = [rotators EXCEPT ![c].pc = "return"]
    /\ UNCHANGED <<vpn_configs, current_vpn_index, rot, vpn_call>>
    /\ UNCHANGED <<scraper_vars, shared_cache_vars, write_vars,
                   race, transport_vars, intel_vars>>

\* line 171: return self.active_vpn; at_cursor is the element at the cursor
\* at that moment
RotReturn(c) ==
    /\ rotators[c].pc = "return"
    /\ rotators' = [rotators EXCEPT ![c].pc = "done",
                        ![c].ret = active_vpn,
                        ![c].at_cursor = vpn_configs[current_vpn_index + 1]]
    /\ UNCHANGED <<scraper_vars, shared_cache_vars, write_vars, vpn_vars,
                   race, transport_vars, intel_vars>>

NextRotate ==
    \/ AddBeforeRotate
    \/ \E c \in Callers :
         \/ RotCheck(c)
         \/ RotReadIndex(c)
         \/ RotWriteIndex(c)
         \/ RotPick(c)
         \/ RotSetActive(c)
         \/ RotReturn(c)

SpecRotate == InitShared /\ [][NextRotate]_vars

\* ---- vpn-integration.py VPNSession, web-scraper-vpn.py VPNWebScraper,
\* ---- playwright-vpn.py VPNPlaywrightScraper: the transport of a request
\* dict.update: the entries of new replace those of old with the same key
dict_update(old, new) ==
    {p \in old : \A q \in new : q[1] # p[1]} \cup new

\* requests: the proxy for a URL of the scheme, or the direct connection
select_proxy(proxies, scheme) ==
    IF \E p \in proxies : p[1] = scheme
    THEN (CHOOSE p \in proxies : p[1] = scheme)[2]
    ELSE Direct

\* the proxy given to chromium.launch (playwright-vpn.py lines 49-63)
proxy_config(vpn) == IF vpn = "none" THEN Direct ELSE proxy_url(vpn)

Schemes == {"http", "https"}

\* the manager is filled before a session or browser is built on it
AddBeforeUse == sent.op = "none" /\ AddVpn

\* VPNSession(vpn_manager): a new requests.Session, then _update_proxies();
\* VPNWebScraper.__init__ takes that session and updates it once more
SessionBuild ==
    /\ session_proxies' = dict_update({}, get_proxy_dict(active_vpn))
    /\ sent' = [op |-> "VPNSession", requests |-> <<>>, vpn_used |-> "none",
                ret |-> "none", auto_rotate |-> FALSE]
    /\ UNCHANGED browser_proxy
    /\ UNCHANGED <<scraper_vars, shared_cache_vars, write_vars, vpn_vars,
                   rotate_vars, intel_vars>>

\* VPNSession.rotate_vpn() and VPNWebScraper.rotate_vpn(): the manager is
\* rotated and the session's proxies are updated from it
SessionRotate ==
    /\ session_proxies # NoSession
    /\ rotate_vpn
    /\ session_proxies' =
           dict_update(session_proxies, get_proxy_dict(active_vpn'))
    /\ sent' = [op |-> "rotate_vpn", requests |-> <<>>, vpn_used |-> "none",
                ret |-> "none", auto_rotate |-> FALSE]
    /\ UNCHANGED browser_proxy
    /\ UNCHANGED <<scraper_vars, shared_cache_vars, write_vars,
                   rotate_vars, intel_vars>>

\* VPNSession.get(url) whose first request succeeds (lines 302-304): one
\* request through the session's proxies, raise_for_status passes
SessionGet1 ==
    \E scheme \in Schemes, auto_rotate \in BOOLEAN, o \in {"ok", "empty"} :
        /\ session_proxies # NoSession
        /\ sent' = [op |-> "get",
                    requests |-> <<[via |-> select_proxy(session_proxies, scheme),
                                    active |-> active_vpn,
                                    idx |-> current_vpn_index]>>,
                    vpn_used |-> "none", ret |-> o,
                    auto_rotate |-> auto_rotate,
                    after |-> <<current_vpn_index, active_vpn>>]
        /\ UNCHANGED <<session_proxies, browser_proxy>>
        /\ UNCHANGED <<scraper_vars, shared_cache_vars, write_vars, vpn_vars,
                       rotate_vars, intel_vars>>

\* VPNSession.get(url) with auto_rotate whose first request fails (lines
\* 306-312): rotate_vpn(), then session.get once more, whose response is
\* returned as it is; o is how that second request ends
SessionGetRotate ==
    \E scheme \in Schemes, o \in Outcomes :
        /\ session_proxies # NoSession
        /\ vpn_configs # <<>>
        /\ rotate_vpn
        /\ session_proxies' =
               dict_update(session_proxies, get_proxy_dict(active_vpn'))
        /\ sent' = [op |-> "get",
                    requests |-> <<[via |-> select_proxy(session_proxies, scheme),
                                    active |-> active_vpn,
                                    idx |-> current_vpn_index],
                                   [via |-> select_proxy(session_proxies', scheme),
                                    active |-> active_vpn',
                                    idx |-> current_vpn_index']>>,
                    vpn_used |-> "none",
                    ret |-> IF o \in AdapterRetried THEN "raises" ELSE o,
                    auto_rotate |-> TRUE,
                    after |-> <<current_vpn_index', active_vpn'>>]
        /\ UNCHANGED browser_proxy
        /\ UNCHANGED <<scraper_vars, shared_cache_vars, write_vars,
                       rotate_vars, intel_vars>>

\* VPNSession.get(url) whose first request fails without auto_rotate or
\* without a pool: the exception is raised again (line 314)
SessionGetRaise ==
    \E scheme \in Schemes, auto_rotate \in BOOLEAN :
        /\ session_proxies # NoSession
        /\ ~auto_rotate \/ vpn_configs = <<>>
        /\ sent' = [op |-> "get",
                    requests |-> <<[via |-> select_proxy(session_proxies, scheme),
                                    active |-> active_vpn,
                                    idx |-> current_vpn_index]>>,
                    vpn_used |-> "none", ret |-> "raises",
                    auto_rotate |-> auto_rotate,
                    after |-> <<current_vpn_index, active_vpn>>]
        /\ UNCHANGED <<session_proxies, browser_proxy>>
        /\ UNCHANGED <<scraper_vars, shared_cache_vars, write_vars, vpn_vars,
                       rotate_vars, intel_vars>>

\* VPNWebScraper(config, auto_rotate).fetch_page(url), up to its second
\* attempt: self.session is the requests.Session inside the VPNSession
\* (web-scraper-vpn.py line 50), so a failed session.get raises into the
\* @retry of fetch_page, which calls session.get again
ScraperFetch ==
    \E scheme \in Schemes, auto_rotate \in BOOLEAN, first \in Outcomes :
      \E r \in {[via |-> select_proxy(session_proxies, scheme),
                 active |-> active_vpn, idx |-> current_vpn_index]} :
        /\ session_proxies # NoSession
        /\ sent' = [op |-> "fetch_page",
                    requests |-> IF AttemptReturns(first) THEN <<r>>
                                 ELSE <<r, r>>,
                    vpn_used |-> "none", ret |-> first,
                    auto_rotate |-> auto_rotate,
                    after |-> <<current_vpn_index, active_vpn>>]
        /\ UNCHANGED <<session_proxies, browser_proxy>>
        /\ UNCHANGED <<scraper_vars, shared_cache_vars, write_vars, vpn_vars,
                       rotate_vars, intel_vars>>

\* VPNPlaywrightScraper.__aenter__: chromium is launched with the proxy of the
\* endpoint active now
BrowserLaunch ==
    /\ browser_proxy = Closed
    /\ browser_proxy' = proxy_config(active_vpn)
    /\ sent' = [op |-> "__aenter__", requests |-> <<>>, vpn_used |-> "none",
                ret |-> "none", auto_rotate |-> FALSE]
    /\ UNCHANGED session_proxies
    /\ UNCHANGED <<scraper_vars, shared_cache_vars, write_vars, vpn_vars,
                   rotate_vars, intel_vars>>

\* VPNPlaywrightScraper.__aexit__
BrowserClose ==
    /\ browser_proxy # Closed
    /\ browser_proxy' = Closed
    /\ sent' = [op |-> "__aexit__", requests |-> <<>>, vpn_used |-> "none",
                ret |-> "none", auto_rotate |-> FALSE]
    /\ UNCHANGED session_proxies
    /\ UNCHANGED <<scraper_vars, shared_cache_vars, write_vars, vpn_vars,
                   rotate_vars, intel_vars>>

\* VPNPlaywrightScraper.scrape_page(url): the page is loaded by the running
\* browser; vpn_used is read from the manager when the result is built
ScrapePage ==
    /\ browser_proxy # Closed
    /\ sent' = [op |-> "scrape_page",
                requests |-> <<[via |-> browser_proxy, active |-> active_vpn,
                                    idx |-> current_vpn_index]>>,
                vpn_used |-> active_vpn,
                ret |-> "none", auto_rotate |-> FALSE]
    /\ UNCHANGED <<session_proxies, browser_proxy>>
    /\ UNCHANGED <<scraper_vars, shared_cache_vars, write_vars, vpn_vars,
                   rotate_vars, intel_vars>>

\* one later iteration of scrape_multiple(urls, rotate_vpn_between=True),
\* lines 241-247: __aexit__, rotate_vpn, __aenter__, scrape_page
ScrapeNextRotated ==
    /\ browser_proxy # Closed
    /\ rotate_vpn
    /\ browser_proxy' = proxy_config(active_vpn')
    /\ sent' = [op |-> "scrape_page",
                requests |-> <<[via |-> browser_proxy', active |-> active_vpn',
                                    idx |-> current_vpn_index']>>,
                vpn_used |-> active_vpn',
                ret |-> "none", auto_rotate |-> FALSE]
    /\ UNCHANGED session_proxies
    /\ UNCHANGED <<scraper_vars, shared_cache_vars, write_vars,
                   rotate_vars, intel_vars>>

\* RotateVpn here is rotate_vpn() called by another holder of the manager
NextTransport ==
    \/ AddBeforeUse
    \/ RotateVpn
    \/ SessionBuild
    \/ SessionRotate
    \/ SessionGet1
    \/ SessionGetRotate
    \/ SessionGetRaise
    \/ ScraperFetch
    \/ BrowserLaunch
    \/ BrowserClose
    \/ ScrapePage
    \/ ScrapeNextRotated

SpecTransport == InitShared /\ [][NextTransport]_vars

\* ------------------ competitor-intelligence.py: CompetitorIntelligence
common_paths == <<"/pricing", "/plans", "/pricing-plans", "/buy">>

\* JavaScriptScraper.scrape_page(test_url): the page, a dict with 'error'
\* (advanced-scraper.py lines 139-145), or an exception of new_page / close
ScrapeOutcomes == {"page", "error", "raises"}

\* base_url.rstrip('/') + path; None is the empty tuple
test_url(path) == <<"base_url", path>>

\* pricing_data of lines 117-122, with the paths scrape_page was called for
NoPricingData == [has_pricing_page |-> FALSE, pricing_url |-> <<>>,
                  fetched |-> <<>>]

\* the loop of lines 129-146 from path i on; _extract_pricing_plans works on
\* the page's text and does not raise
RECURSIVE ProbeFrom(_, _, _)
ProbeFrom(outcomes, i, data) ==
    IF i > Len(common_paths) THEN data
    ELSE LET d == [data EXCEPT !.fetched = Append(@, common_paths[i])]
         IN  IF outcomes[i] = "page"
             THEN [d EXCEPT !.has_pricing_page = TRUE,
                            !.pricing_url = test_url(common_paths[i])]
             ELSE ProbeFrom(outcomes, i + 1, d)

_analyze_pricing_LastPage(launched, outcomes) ==
    LET pages == {i \in DOMAIN common_paths : outcomes[i] = "page"}
    IN  IF ~launched THEN NoPricingData
        ELSE [has_pricing_page |-> pages # {},
              pricing_url |->
                  IF pages = {} THEN <<>>
                  ELSE test_url(common_paths[
                           CHOOSE i \in pages : \A j \in pages : j <= i]),
              fetched |-> common_paths]

\* CompetitorIntelligence._analyze_pricing(base_url); launched is whether
\* 'async with JavaScriptScraper()' was entered (else the except of line 148)
_analyze_pricing(launched, outcomes) ==
    IF launched THEN ProbeFrom(outcomes, 1, NoPricingData) ELSE NoPricingData

\* a section of a report: the key is absent, its value is None, or it is a
\* dict in which the tracked value is present or absent
Sections(values) ==
    {[kind |-> "absent", value |-> "absent"],
     [kind |-> "None", value |-> "absent"]}
        \cup [kind : {"dict"}, value : values \cup {"absent"}]

Titles == {"", "t1", "t2"}

NoReport == [given |-> "None",
             seo_analysis |-> [kind |-> "absent", value |-> "absent"],
             pricing_info |-> [kind |-> "absent", value |-> "absent"],
             error |-> FALSE]

\* previous_data: None, an empty dict, or a dict with or without the sections
PreviousData ==
    {NoReport, [NoReport EXCEPT !.given = "empty"]}
        \cup [given : {"dict"}, seo_analysis : Sections(Titles),
              pricing_info : Sections({"False", "True"}), error : BOOLEAN]

\* CompetitorIntelligence.full_analysis(url): the sections monitor_changes
\* reads. basic and rest are whether analyze_website and the steps of lines
\* 88-96 raise; seo is a title text, "error" (analyze_seo returned the error
\* dict of scrape_page) or "raises"
full_analysis(basic, seo, pricing_data, rest) ==
    IF basic = "raises" \/ seo = "raises"
    THEN [given |-> "dict",
          seo_analysis |-> [kind |-> "None", value |-> "absent"],
          pricing_info |-> [kind |-> "None", value |-> "absent"],
          error |-> TRUE]
    ELSE [given |-> "dict",
          seo_analysis |-> [kind |-> "dict",
                            value |-> IF seo = "error" THEN "absent" ELSE seo],
          pricing_info |-> [kind |-> "dict",
                            value |-> IF pricing_data.has_pricing_page
                                      THEN "True" ELSE "False"],
          error |-> rest = "raises"]

\* data.get(section, {}).get(..., default): None has no attribute 'get'
section_get(section, default) ==
    IF section.kind = "None" THEN [raised |-> TRUE, value |-> default]
    ELSE IF section.kind = "absent" \/ section.value = "absent"
         THEN [raised |-> FALSE, value |-> default]
         ELSE [raised |-> FALSE, value |-> section.value]

not_previous_data_Never(previous_data) == FALSE

\* line 339: if not previous_data
not_previous_data(previous_data) == previous_data.given \in {"None", "empty"}

change_entries_Always(field, old, new) ==
    <<[field |-> field, old_value |-> old, new_value |-> new]>>

\* lines 357-363 and 369-375: the entry appended when the values differ
change_entries(field, old, new) ==
    IF old # new
    THEN <<[field |-> field, old_value |-> old, new_value |-> new]>>
    ELSE <<>>

\* CompetitorIntelligence.monitor_changes(url, previous_data), from line 339
\* on, current_data being what full_analysis returned
monitor_changes(previous_data, current_data) ==
    IF not_previous_data(previous_data)
    THEN [kind |-> "no_baseline", keys |-> {"url", "message", "current_data"},
          message |-> "No previous data for comparison",
          current_data |-> current_data,
          changes_detected |-> FALSE, changes |-> <<>>]
    ELSE LET old_title == section_get(previous_data.seo_analysis, "")
             new_title == section_get(current_data.seo_analysis, "")
             old_pricing == section_get(previous_data.pricing_info, "False")
             new_pricing == section_get(current_data.pricing_info, "False")
             changes == change_entries("title", old_title.value,
                                       new_title.value)
                        \o change_entries("pricing_page", old_pricing.value,
                                          new_pricing.value)
         IN  IF \/ old_title.raised \/ new_title.raised
                \/ old_pricing.raised \/ new_pricing.raised
             THEN [kind |-> "raises", keys |-> {},
                   message |-> "AttributeError", current_data |-> NoReport,
                   changes_detected |-> FALSE, changes |-> <<>>]
             ELSE [kind |-> "changes",
                   keys |-> {"url", "timestamp", "changes_detected", "changes"},
                   message |-> "", current_data |-> NoReport,
                   changes_detected |-> changes # <<>>, changes |-> changes]

\* one call of monitor_changes on a new CompetitorIntelligence
MonitorChanges ==
    \E previous_data \in PreviousData, basic \in {"ok", "raises"},
       seo \in Titles \cup {"error", "raises"}, o \in {"page", "error"},
       rest \in {"ok", "raises"} :
      \E current_data \in
            {full_analysis(basic, seo,
                 _analyze_pricing(TRUE, [i \in DOMAIN common_paths |-> o]),
                 rest)} :
        /\ monitor.op = "none" /\ pricing.op = "none"
        /\ monitor' = [op |-> "monitor_changes", prev |-> previous_data,
                       cur |-> current_data,
                       result |-> monitor_changes(previous_data, current_data)]
        /\ UNCHANGED <<pricing, render, pure>>
        /\ UNCHANGED <<scraper_vars, shared_cache_vars, write_vars, vpn_vars,
                       rotate_vars, transport_vars>>

\* one call of _analyze_pricing
AnalyzePricing ==
    \E launched \in BOOLEAN, outcomes \in [DOMAIN common_paths -> ScrapeOutcomes] :
        /\ monitor.op = "none" /\ pricing.op = "none"
        /\ pricing' = [op |-> "_analyze_pricing", launched |-> launched,
                       outcomes |-> outcomes,
                       result |-> _analyze_pricing(launched, outcomes)]
        /\ UNCHANGED <<monitor, render, pure>>
        /\ UNCHANGED <<scraper_vars, shared_cache_vars, write_vars, vpn_vars,
                       rotate_vars, transport_vars>>

NextIntel == MonitorChanges \/ AnalyzePricing

SpecIntel == InitShared /\ [][NextIntel]_vars

\* ---- advanced-scraper.py JavaScriptScraper ("js") and playwright-vpn.py
\* ---- VPNPlaywrightScraper ("vpn"): browser resources and page operations
\* Page.close() and Browser.close() of playwright do not raise on a target
\* that is already gone.
\* how a page operation can go: new_page raises, page.goto raises,
\* wait_for_selector raises (only with wait_for), page.evaluate of the script
\* raises (only with execute_script), page.content raises or holds no "ip"
\* (get_current_ip), or all of it succeeds
PageOutcomes(op, wait_for, execute_script) ==
    {"ok", "new_page_fails", "goto_fails"}
        \cup (IF wait_for THEN {"wait_fails"} ELSE {})
        \cup (IF execute_script THEN {"script_fails"} ELSE {})
        \cup (IF op = "get_current_ip" THEN {"content_fails", "no_match"}
              ELSE {})

scrape_page_Retrying(op, outcome) ==
    [navigations |-> IF outcome = "new_page_fails" THEN 0
                     ELSE IF outcome = "goto_fails" THEN 2 ELSE 1,
     result |-> IF outcome = "ok" THEN "page" ELSE "raises",
     leaked |-> 0]

\* scrape_page of both classes (try / except / finally around one page.goto),
\* scrape_spa and extract_structured_data (try / finally, no except) and
\* VPNPlaywrightScraper.get_current_ip (new_page inside the try, page.close
\* only on the success path): navigations made, what the caller gets, and
\* pages left open
scrape_page(op, outcome) ==
    [navigations |-> IF outcome = "new_page_fails" THEN 0 ELSE 1,
     result |-> IF outcome = "ok"
                THEN (IF op = "get_current_ip" THEN "ip" ELSE "page")
                ELSE IF op = "get_current_ip" THEN "Unknown"
                ELSE IF outcome = "new_page_fails" THEN "raises"
                ELSE IF op = "scrape_page" THEN "error" ELSE "raises",
     leaked |-> IF op = "get_current_ip"
                    /\ outcome \in {"goto_fails", "content_fails"}
                THEN 1 ELSE 0]

\* the operations each class offers
PageOps(cls) ==
    IF cls = "js" THEN {"scrape_page", "scrape_spa", "extract_structured_data"}
    ELSE {"scrape_page", "get_current_ip"}

\* 'async with scraper': __aenter__ starts the driver, launches chromium and
\* (vpn) opens a context; when one of these raises, __aexit__ is not called
RenderEnter ==
    \E cls \in {"js", "vpn"},
       fail \in {"none", "start", "launch", "new_context"} :
        /\ render.phase = "new"
        /\ fail = "new_context" => cls = "vpn"
        /\ render' = [NoRender EXCEPT
                        !.cls = cls, !.op = "__aenter__", !.outcome = fail,
                        !.phase = IF fail = "none" THEN "entered"
                                  ELSE "entry_failed",
                        !.result = IF fail = "none" THEN "self" ELSE "raises",
                        !.driver = fail # "start",
                        !.browser = fail \notin {"start", "launch"},
                        !.context = cls = "vpn" /\ fail = "none"]
        /\ UNCHANGED <<monitor, pricing, pure>>
        /\ UNCHANGED <<scraper_vars, shared_cache_vars, write_vars, vpn_vars,
                       rotate_vars, transport_vars>>

\* the end of the 'async with' block: __aexit__ closes the context (vpn), the
\* browser, with it every page still open, and stops the driver
RenderExit ==
    /\ render.phase = "entered"
    /\ render' = [NoRender EXCEPT !.cls = render.cls, !.op = "__aexit__",
                                  !.phase = "exited",
                                  !.pages_before = render.pages]
    /\ UNCHANGED <<monitor, pricing, pure>>
    /\ UNCHANGED <<scraper_vars, shared_cache_vars, write_vars, vpn_vars,
                   rotate_vars, transport_vars>>

\* one page operation inside the 'async with' block
RenderPageOp ==
    \E op \in PageOps(render.cls), wait_for \in BOOLEAN,
       execute_script \in BOOLEAN :
      \E outcome \in PageOutcomes(op, wait_for, execute_script) :
       \E r \in {scrape_page(op, outcome)} :
        /\ render.phase = "entered"
        /\ op # "scrape_page" => ~wait_for /\ ~execute_script
        /\ render.pages + r.leaked <= MaxPages
        /\ render' = [render EXCEPT
                        !.op = op, !.wait_for = wait_for,
                        !.execute_script = execute_script,
                        !.outcome = outcome,
                        !.navigations = r.navigations, !.result = r.result,
                        !.pages_before = render.pages,
                        !.pages = render.pages + r.leaked]
        /\ UNCHANGED <<monitor, pricing, pure>>
        /\ UNCHANGED <<scraper_vars, shared_cache_vars, write_vars, vpn_vars,
                       rotate_vars, transport_vars>>

NextRender == RenderEnter \/ RenderExit \/ RenderPageOp

SpecRender == InitShared /\ [][NextRender]_vars

\* ---- pure steps: advanced-scraper.py SEOAnalyzer, web-scraper.py extractors
\* ---- and CompetitorAnalyzer, competitor-intelligence.py report assembly
analyze_seo_Exclusive(page_error, title_length, description_length) ==
    IF page_error THEN [error |-> TRUE]
    ELSE [error |-> FALSE,
          title |-> [length |-> title_length,
                     optimal |-> TitleMin < title_length
                                 /\ title_length < TitleMax],
          description |-> [length |-> description_length,
                           optimal |-> DescriptionMin < description_length
                                       /\ description_length < DescriptionMax]]

\* SEOAnalyzer.analyze_seo: the scrape's error dict as it is, otherwise the
\* analysis with the length of title and description and their 'optimal' flags
analyze_seo(page_error, title_length, description_length) ==
    IF page_error THEN [error |-> TRUE]
    ELSE [error |-> FALSE,
          title |-> [length |-> title_length,
                     optimal |-> TitleMin <= title_length
                                 /\ title_length <= TitleMax],
          description |-> [length |-> description_length,
                           optimal |-> DescriptionMin <= description_length
                                       /\ description_length <= DescriptionMax]]

AnalyzeSeo ==
    /\ pure.op = "none"
    /\ \E page_error \in BOOLEAN, title_length \in 0..MaxTitle,
          description_length \in 0..MaxDescription :
        /\ page_error => title_length = 0 /\ description_length = 0
        /\ pure' = [op |-> "analyze_seo",
                    title_length |-> title_length,
                    description_length |-> description_length,
                    ret |-> analyze_seo(page_error, title_length,
                                        description_length)]
        /\ UNCHANGED <<monitor, pricing, render>>
        /\ UNCHANGED <<scraper_vars, shared_cache_vars, write_vars, vpn_vars,
                       rotate_vars, transport_vars>>

\* word counts around both thresholds, and a few small ones
WordCounts ==
    (0..MaxWords)
        \cup {ThinBelow - 1, ThinBelow, ThinBelow + 1,
              RichAbove - 1, RichAbove, RichAbove + 1}

\* what 'seo_analysis' can hold when the insights are generated: the error
\* dict of a failed scrape, or the two 'optimal' flags
SeoResults ==
    {[error |-> TRUE]}
        \cup {[error |-> FALSE, title |-> [optimal |-> t],
               description |-> [optimal |-> d]] : t, d \in BOOLEAN}

_generate_insights_Thin(basic_error, word_count, social, seo, has_pricing_page) ==
    [strengths |->
        (IF ~basic_error /\ word_count > RichAbove
         THEN {"Rich content with good depth"} ELSE {})
        \cup (IF has_pricing_page THEN {"Clear pricing page available"}
              ELSE {}),
     weaknesses |->
        (IF ~basic_error /\ word_count <= ThinBelow
         THEN {"Thin content, lacks depth"} ELSE {})
        \cup (IF ~basic_error /\ social <= LimitedSocial
              THEN {"Limited social media presence"} ELSE {}),
     opportunities |-> {}]

\* CompetitorIntelligence._generate_insights on a report whose basic analysis
\* is an error dict or holds word_count and social platforms found, whose
\* seo_analysis is seo, and whose pricing_info says has_pricing_page
_generate_insights(basic_error, word_count, social, seo, has_pricing_page) ==
    [strengths |->
        (IF ~seo.error /\ seo.title.optimal
         THEN {"Well-optimized title tag"} ELSE {})
        \cup (IF ~seo.error /\ seo.description.optimal
              THEN {"Well-optimized meta description"} ELSE {})
        \cup (IF ~basic_error /\ word_count > RichAbove
              THEN {"Rich content with good depth"} ELSE {})
        \cup (IF ~basic_error /\ social >= StrongSocial
              THEN {"Strong social media presence"} ELSE {})
        \cup (IF has_pricing_page THEN {"Clear pricing page available"}
              ELSE {}),
     weaknesses |->
        (IF ~seo.error /\ ~seo.title.optimal
         THEN {"Title tag needs optimization"} ELSE {})
        \cup (IF ~seo.error /\ ~seo.description.optimal
              THEN {"Meta description needs optimization"} ELSE {})
        \cup (IF ~basic_error /\ ~(word_count > RichAbove)
                 /\ word_count < ThinBelow
              THEN {"Thin content, lacks depth"} ELSE {})
        \cup (IF ~basic_error /\ ~(social >= StrongSocial)
                 /\ social < LimitedSocial
              THEN {"Limited social media presence"} ELSE {})
        \cup (IF ~has_pricing_page THEN {"No clear pricing information"}
              ELSE {}),
     opportunities |->
        IF has_pricing_page
        THEN {"Analyze pricing strategy for competitive positioning"}
        ELSE {}]

GenerateInsights ==
    /\ pure.op = "none"
    /\ \E basic_error \in BOOLEAN, word_count \in WordCounts,
       social \in 0..SocialPlatforms, seo \in SeoResults,
       has_pricing_page \in BOOLEAN :
        /\ basic_error => word_count = 0 /\ social = 0
        /\ pure' = [op |-> "_generate_insights",
                    basic_error |-> basic_error,
                    word_count |-> word_count,
                    social |-> social,
                    has_pricing_page |-> has_pricing_page,
                    ret |-> _generate_insights(basic_error, word_count,
                                               social, seo, has_pricing_page)]
        /\ UNCHANGED <<monitor, pricing, render>>
        /\ UNCHANGED <<scraper_vars, shared_cache_vars, write_vars, vpn_vars,
                       rotate_vars, transport_vars>>

\* the substrings _detect_technologies looks for, in the order of its
\* if / elif chain, each with the technology it stands for
KnownTechnologies ==
    << <<"react", "React">>, <<"vue", "Vue.js">>, <<"angular", "Angular">>,
       <<"jquery", "jQuery">>, <<"bootstrap", "Bootstrap">> >>

\* a lower-cased script src, as the set of known substrings occurring in it
ScriptSrcs == SUBSET {KnownTechnologies[i][1] : i \in DOMAIN KnownTechnologies}

\* CompetitorAnalyzer._detect_technologies: for each script the technology of
\* the first branch of the chain whose substring occurs in the src, then the
\* content of the generator meta tag, the whole without duplicates
_detect_technologies(scripts, generator) ==
    LET first(src) ==
            CHOOSE i \in DOMAIN KnownTechnologies :
                /\ KnownTechnologies[i][1] \in src
                /\ \A j \in 1..(i - 1) : KnownTechnologies[j][1] \notin src
    IN  {KnownTechnologies[first(src)][2] : src \in {x \in scripts : x # {}}}
            \cup (IF generator # "" THEN {generator} ELSE {})

DetectTechnologies ==
    /\ pure.op = "none"
    /\ \E found \in UNION {[1..n -> ScriptSrcs] : n \in 0..MaxScripts},
          generator \in {"", "WordPress 6.4"} :
        /\ pure' = [op |-> "_detect_technologies",
                    scripts |-> {found[i] : i \in DOMAIN found},
                    ret |-> _detect_technologies(
                                {found[i] : i \in DOMAIN found}, generator)]
        /\ UNCHANGED <<monitor, pricing, render>>
        /\ UNCHANGED <<scraper_vars, shared_cache_vars, write_vars, vpn_vars,
                       rotate_vars, transport_vars>>

\* the tags extract_text_content removes from the document by default
strip_tags == {"script", "style", "nav", "footer", "header", "aside"}

\* an element of a parsed document: its tag, the element it sits in, and the
\* href of an anchor ("/about" is on the page's own domain)
Elements ==
    {[tag |-> t, parent |-> q, href |-> h] :
        t \in {"a", "img", "p", "script"},
        q \in {"body", "nav", "footer", "header", "aside"},
        h \in {"", "/about", "https://other.example/"}}

\* parsed documents: a title and a few elements, anchors with an href,
\* anything else without
Soups ==
    {[title |-> t, body |-> {found[i] : i \in DOMAIN found}] :
        t \in {"", "t1"},
        found \in UNION {[1..n -> {e \in Elements : e.tag = "a" <=> e.href # ""}]
                            : n \in 0..MaxElements}}

\* the extractors in the order WebScraper.scrape_page calls them on one
\* parsed document; extract_text_content decomposes every element with a tag
\* of strip_tags, with all it contains, before it reads the text, so the
\* document is returned as the call leaves it
extract(soup) ==
    LET kept == {e \in soup.body : e.tag \notin strip_tags
                                   /\ e.parent \notin strip_tags}
    IN  [result |->
            [metadata |-> [title |-> soup.title],
             links |-> {e.href : e \in {x \in soup.body : x.tag = "a"}},
             internal_links |->
                {e.href : e \in {x \in soup.body :
                                    x.tag = "a" /\ x.href = "/about"}},
             images |-> {e \in soup.body : e.tag = "img"},
             text_content |-> {e \in kept : e.tag \in {"a", "p"}}],
         soup |-> [soup EXCEPT !.body = kept]]

\* the extractors run on a parsed document, and again on the same object
ExtractTwice ==
    /\ pure.op = "none"
    /\ \E soup \in Soups :
         \E first \in {extract(soup)} :
            pure' = [op |-> "extract", soup |-> soup,
                     first |-> first.result,
                     second |-> extract(first.soup).result]
    /\ UNCHANGED <<monitor, pricing, render>>
    /\ UNCHANGED <<scraper_vars, shared_cache_vars, write_vars, vpn_vars,
                   rotate_vars, transport_vars>>

\* the steps of CompetitorIntelligence.full_analysis in the order they run,
\* each with whether it is awaited; the task can only be cancelled while it
\* waits in an awaited step
AnalysisSteps ==
    << <<"basic_analysis", FALSE>>, <<"seo_analysis", TRUE>>,
       <<"pricing_info", TRUE>>, <<"features", TRUE>>,
       <<"technologies", FALSE>>, <<"insights", FALSE>> >>

\* full_analysis in which step number 'at' ends with 'how': "raises" is an
\* Exception, which 'except Exception' of line 100 turns into the 'error'
\* entry of the report; "cancelled" is asyncio.CancelledError, a
\* BaseException, which no handler of full_analysis or of its steps catches;
\* "done" lets every step complete. The report starts with None for the five
\* sections of lines 65-69 and without 'insights'.
full_analysis_steps(at, how) ==
    [returned |-> how # "cancelled",
     error |-> how = "raises",
     sections |->
        [i \in DOMAIN AnalysisSteps |->
            IF how = "done" \/ i < at THEN "value"
            ELSE IF AnalysisSteps[i][1] = "insights" THEN "absent"
            ELSE "None"]]

FullAnalysisSteps ==
    /\ pure.op = "none"
    /\ \E at \in DOMAIN AnalysisSteps, how \in {"done", "raises", "cancelled"} :
        /\ how = "cancelled" => AnalysisSteps[at][2]
        /\ how = "done" => at = Len(AnalysisSteps)
        /\ pure' = [op |-> "full_analysis", at |-> at, how |-> how,
                    ret |-> full_analysis_steps(at, how)]
    /\ UNCHANGED <<monitor, pricing, render>>
    /\ UNCHANGED <<scraper_vars, shared_cache_vars, write_vars, vpn_vars,
                   rotate_vars, transport_vars>>

NextPure ==
    \/ AnalyzeSeo
    \/ GenerateInsights
    \/ DetectTechnologies
    \/ ExtractTwice
    \/ FullAnalysisSteps

SpecPure == InitShared /\ [][NextPure]_vars

\* ======================================================== the claims

\* C1: with caching enabled, a second fetch_page(u) in the session where u was
\* fetched, made while the stored response is at most 24 hours old, issues no
\* physical request, returns the cached content and leaves request_count as
\* it was.
C1_SecondFetchServedFromCache ==
    (last.op = "fetch_page" /\ cache_enabled /\ ~last.new_url
        /\ last.fresh_before)
    => /\ last.phys = 0
       /\ last.kind = "html"
       /\ last.body = last.body_before
       /\ request_count = last.rc_before

C3_CacheHitBypassesBudget ==
    (last.op = "fetch_page" /\ last.fresh_before)
    => /\ last.kind = "html"
       /\ last.from_cache
       /\ last.body = last.body_before
       /\ last.phys = 0
       /\ last.slept = 0
       /\ request_count = last.rc_before

\* C4: the physical HTTP requests a session has issued, retries and failed
\* requests included, never exceed max_requests.
C4_PhysicalRequestsWithinBudget == physical_total <= max_requests

\* C5: fetch_page and scrape_page never raise: every outcome is a value.
C5_FetcherNeverRaises ==
    call.op \in {"fetch_page", "scrape_page"} => call.kind # "raise"

\* C6: analyze_website never raises: it returns a populated report or the
\* error report.
C6_AnalyzerNeverRaises ==
    last.op = "analyze_website" => last.kind \in {"report", "error"}

\* C7: one fetch_page call issues at most 3 HTTP requests, on the plain and on
\* the proxy-bound session, and none after the one that succeeded.
C7_AtMostThreeRequests ==
    call.op = "fetch_page"
    => /\ call.phys <= StopAfterAttempt
       /\ call.attempts <= StopAfterAttempt

\* C8: a first attempt answered 404 ends the fetch after that one attempt with
\* no backoff wait; a first attempt answered 429 is retried.
C8_PermanentErrorNotRetried ==
    (call.op = "fetch_page" /\ call.session = "plain" /\ Len(call.seen) >= 1)
    => /\ call.seen[1] = "s404"
            => (call.attempts = 1 /\ call.waits = <<>> /\ call.kind # "html")
       /\ call.seen[1] = "s429" => call.attempts > 1

\* C9: fetch_page of a malformed URL returns the failure value, issues no
\* physical request, is not retried, and leaves request_count and the cache
\* as they were.
C9_InvalidURLRejected ==
    (last.op = "fetch_page" /\ last.url \notin ValidURLs)
    => /\ last.kind = "none"
       /\ last.phys = 0
       /\ last.attempts <= 1
       /\ request_count = last.rc_before
       /\ last.cache_same

\* C9, the case reached: the malformed URL got past the limit test and the
\* cache lookup, down to the validation in WebScraper.fetch_page
C9_Witness ==
    /\ last.op = "fetch_page"
    /\ last.url = "bad"
    /\ last.rc_before > 0
    /\ last.rc_before < max_requests
    /\ last.attempts = 1
    /\ last.kind = "none"

\* C10: 503 on attempts 1 and 2 and a success on attempt 3 give the content
\* after exactly two retries, each after a backoff wait between 4 s and 10 s.
C10_TwoRetriesThenSuccess ==
    (call.op = "fetch_page" /\ call.session = "plain"
        /\ call.seen = <<"s503", "s503", "ok">>)
    => /\ call.kind = "html"
       /\ call.attempts = 3
       /\ call.phys = 3
       /\ Len(call.waits) = 2
       /\ \A i \in 1..Len(call.waits) :
              call.waits[i] >= 4 /\ call.waits[i] <= 10

\* C10, the case reached
C10_Witness ==
    /\ call.op = "fetch_page"
    /\ call.session = "plain"
    /\ call.seen = <<"s503", "s503", "ok">>
    /\ call.kind = "html"
    /\ Len(call.waits) = 2

\* the response of the last fetch_page as _save_to_cache writes it
StoredResponse ==
    [present |-> TRUE, readable |-> TRUE, fields |-> "all",
     html |-> last.body, timestamp |-> now]

C12_BudgetInvariant ==
    /\ 0 <= request_count
    /\ request_count <= max_requests
    /\ request_count >= last.rc_before
    /\ (last.op # "none" /\ last.rc_before >= max_requests) => last.phys = 0
    /\ (last.op = "fetch_page" /\ last.rc_before >= max_requests)
         => last.kind = "none"

\* C12, the case reached: the limit was hit and a call that had nothing cached
\* to fall back on failed fast
C12_Witness ==
    /\ last.op = "fetch_page"
    /\ last.url \in ValidURLs
    /\ last.rc_before = max_requests
    /\ ~last.fresh_before
    /\ last.kind = "none"
    /\ last.phys = 0

C14_LookupHonoursTTL ==
    /\ (probe.op = "get" /\ probe.hit)
         => /\ Intact(probe.entry_before)
            /\ now - probe.entry_before.timestamp <= 24
            /\ probe.html = probe.entry_before.html
    /\ (probe.op = "get" /\ Intact(probe.entry_before)
            /\ now - probe.entry_before.timestamp <= 24)
         => probe.hit
    /\ (probe.op = "get" /\ Intact(probe.entry_before)
            /\ now - probe.entry_before.timestamp > 24)
         => /\ ~probe.hit
            /\ cache[_get_cache_key(probe.url)] = probe.entry_before
    /\ (probe.op = "fetch" /\ Intact(probe.entry_before)
            /\ now - probe.entry_before.timestamp > 24 /\ probe.kind # "html")
         => cache[_get_cache_key(probe.url)] = probe.entry_before

\* C14, the case reached: an entry older than 24 hours was looked up
C14_Witness ==
    /\ probe.op = "get"
    /\ Intact(probe.entry_before)
    /\ now - probe.entry_before.timestamp > 24
    /\ ~probe.hit
    /\ cache[_get_cache_key(probe.url)] = probe.entry_before

\* C15: a stored entry that is unreadable or malformed is a cache miss: the
\* lookup returns absent and raises nothing, and a fetch within the budget goes
\* on to a physical request.
C15_CorruptEntryIsMiss ==
    /\ (probe.op = "get" /\ probe.entry_before.present
            /\ ~Intact(probe.entry_before))
         => (~probe.hit /\ probe.exc = "")
    /\ (probe.op = "fetch" /\ probe.entry_before.present
            /\ ~Intact(probe.entry_before) /\ probe.rc_before < max_requests)
         => (~probe.from_cache /\ probe.phys >= 1)

\* C15, the case reached: a file without the html field, then a fetch
C15_Witness ==
    /\ probe.op = "fetch"
    /\ probe.entry_before.fields = "no_html"
    /\ probe.phys >= 1
    /\ probe.kind = "html"

\* C16: two URLs that differ only in the order of their query parameters share
\* a cache key: after one was fetched, a fetch of the other within the TTL is
\* a cache hit.
C16_QueryOrderSharesKey ==
    (probe.op = "fetch" /\ probe.variant_fresh
        /\ probe.rc_before < max_requests)
    => (probe.from_cache /\ probe.phys = 0)

\* C19: two separately constructed sessions share no state: a fetch in one
\* changes neither the other's request_count nor whether the other's fetch of
\* the same URL is a cache hit.
C19_SessionsShareNothing ==
    probe.op = "fetch"
    => /\ probe.other_rc_same
       /\ probe.from_cache => stored_by[probe.url] = probe.session

\* C17: a lookup that runs while one put to its key is in progress observes
\* the complete previous entry or the complete new one, never a partial file
\* and never a miss.
C17_WriteAtomicForReader ==
    (reader.op = "get" /\ Cardinality(reader.started) = 1)
    => /\ reader.hit
       /\ reader.content \in {"old"} \cup reader.started

\* C18: after two concurrent puts to one key have both completed, the stored
\* entry is exactly the entry of one of the two writers, and a lookup returns
\* that writer's content.
C18_LastWriterWins ==
    /\ (\A w \in Writers : writers[w].pc = "done")
         => json_load(file.bytes) \in Writers
    /\ (reader.op = "get" /\ reader.finished = Writers)
         => (reader.hit /\ reader.content \in Writers)

\* C20: on a pool of K >= 1 endpoints, K calls of rotate_vpn in a row bring
\* the active endpoint back to the one active before the first call, and the
\* K endpoints active in between are the pool's elements, each once, in pool
\* order.
C20_RotationClosure ==
    (Len(vpn_configs) >= 1 /\ rot.count = Len(vpn_configs))
    => /\ active_vpn = rot.start_active
       /\ \A i \in 1..rot.count :
              rot.actives[i] = vpn_configs[rot.indices[i] + 1]
       /\ {rot.indices[i] : i \in 1..rot.count} = 0..(Len(vpn_configs) - 1)
       /\ \A i \in 1..(rot.count - 1) :
              rot.indices[i + 1] = (rot.indices[i] + 1) % Len(vpn_configs)

\* C21: after any sequence of load_config, add_vpn and rotate_vpn calls, a
\* non-empty pool has 0 <= current_vpn_index < len(vpn_configs) with active_vpn
\* the element at current_vpn_index, and an empty pool has active_vpn none.
C21_ActiveAtCursor ==
    IF vpn_configs # <<>>
    THEN /\ current_vpn_index \in 0..(Len(vpn_configs) - 1)
         /\ active_vpn = vpn_configs[current_vpn_index + 1]
    ELSE active_vpn = "none"

\* C22: after load_config(c) of a file whose entries are all well-formed, the
\* pool is exactly the entries of c with enabled = true, in file order,
\* whatever it held before.
C22_LoadReplacesPool ==
    (vpn_call.op = "load_config" /\ vpn_call.file.readable
        /\ \A i \in DOMAIN vpn_call.file.vpns : vpn_call.file.vpns[i].complete)
    => LET en == SelectSeq(vpn_call.file.vpns, LAMBDA e : e.enabled)
       IN  vpn_configs = [i \in 1..Len(en) |-> en[i].name]

\* C23: rotate_vpn on an empty pool returns none, leaves current_vpn_index and
\* active_vpn as they were, and the proxy mapping given to the HTTP session
\* afterwards is empty.
C23_RotateOnEmptyPool ==
    (vpn_call.op = "rotate_vpn" /\ vpn_call.pool_before = <<>>)
    => /\ vpn_call.ret = "none"
       /\ current_vpn_index = vpn_call.idx_before
       /\ active_vpn = vpn_call.active_before
       /\ vpn_configs = <<>>
       /\ vpn_call.proxies = {}

\* C23, the case reached: rotate_vpn was called on a manager holding nothing
C23_Witness ==
    /\ vpn_call.op = "rotate_vpn"
    /\ vpn_call.pool_before = <<>>
    /\ vpn_call.ret = "none"

\* C24: when two callers invoke rotate_vpn concurrently on a shared pool of
\* K >= 2 endpoints, after both have returned the cursor has advanced by
\* exactly 2 modulo K, active_vpn is the element at the cursor, and each caller
\* was returned the element that was at the cursor when it returned.
C24_RotationAtomic ==
    ((\A c \in Callers : rotators[c].pc = "done") /\ Len(vpn_configs) >= 2)
    => /\ current_vpn_index = (race.cursor + 2) % Len(vpn_configs)
       /\ active_vpn = vpn_configs[current_vpn_index + 1]
       /\ \A c \in Callers : rotators[c].ret = rotators[c].at_cursor

\* C25: every physical request, static or rendered, goes through the proxy of
\* the endpoint that is the manager's active one when the request is issued,
\* or directly when there is none, and the vpn_used field of a rendered
\* result names the endpoint the page was fetched through.
C25_RequestThroughActiveEndpoint ==
    /\ \A i \in DOMAIN sent.requests :
           sent.requests[i].via =
               (IF sent.requests[i].active = "none" THEN Direct
                ELSE proxy_url(sent.requests[i].active))
    /\ sent.op = "scrape_page"
         => sent.requests[1].via =
               (IF sent.vpn_used = "none" THEN Direct
                ELSE proxy_url(sent.vpn_used))

\* C26: for any report A that full_analysis can return, monitor_changes with
\* previous = A and a current analysis equal to A yields changes_detected =
\* false and an empty list of changes.
C26_SelfDiffIsEmpty ==
    (monitor.op = "monitor_changes" /\ monitor.prev = monitor.cur)
    => /\ monitor.result.kind = "changes"
       /\ ~monitor.result.changes_detected
       /\ monitor.result.changes = <<>>

\* C27: monitor_changes never raises: whatever the previous report and the
\* outcome of the current analysis, it returns a change report or the
\* no-baseline result.
C27_MonitorNeverRaises ==
    monitor.op = "monitor_changes"
    => monitor.result.kind \in {"changes", "no_baseline"}

\* C28: a change report has exactly one entry for each of the tracked fields
\* title and pricing_page whose value differs between the previous and the
\* current report, no entry for a field whose values are equal, and
\* changes_detected is true exactly when the list of entries is non-empty.
C28_OneEntryPerChangedField ==
    (monitor.op = "monitor_changes" /\ monitor.result.kind = "changes")
    => LET r == monitor.result
           Entries(f) == {i \in DOMAIN r.changes : r.changes[i].field = f}
           Differs(f) ==
               IF f = "title"
               THEN section_get(monitor.prev.seo_analysis, "").value
                        # section_get(monitor.cur.seo_analysis, "").value
               ELSE section_get(monitor.prev.pricing_info, "False").value
                        # section_get(monitor.cur.pricing_info, "False").value
       IN  /\ \A f \in {"title", "pricing_page"} :
                  Cardinality(Entries(f)) = IF Differs(f) THEN 1 ELSE 0
           /\ \A i \in DOMAIN r.changes :
                  r.changes[i].field \in {"title", "pricing_page"}
           /\ r.changes_detected <=> (Len(r.changes) > 0)

\* C28, the case reached: the title differs and the pricing page does not
C28_Witness ==
    /\ monitor.op = "monitor_changes"
    /\ monitor.result.kind = "changes"
    /\ Len(monitor.result.changes) = 1
    /\ monitor.result.changes[1].field = "title"
    /\ monitor.prev.pricing_info = monitor.cur.pricing_info
    /\ monitor.cur.pricing_info.value = "True"

\* C29: monitor_changes called with no previous report returns the
\* no-baseline message and the current report, and its result has no
\* changes_detected field.
C29_NoBaselineResult ==
    (monitor.op = "monitor_changes" /\ monitor.prev.given = "None")
    => /\ monitor.result.kind = "no_baseline"
       /\ monitor.result.message = "No previous data for comparison"
       /\ monitor.result.current_data = monitor.cur
       /\ monitor.result.keys = {"url", "message", "current_data"}
       /\ "changes_detected" \notin monitor.result.keys

\* C29, the case reached: no previous report and a current analysis that
\* failed
C29_Witness ==
    /\ monitor.op = "monitor_changes"
    /\ monitor.prev.given = "None"
    /\ monitor.cur.error
    /\ monitor.result.kind = "no_baseline"

\* C30: _analyze_pricing calls scrape_page for /pricing, /plans,
\* /pricing-plans, /buy in that order and stops at the first call that
\* returns a page: nothing is fetched after it, pricing_url is that path's
\* URL, and has_pricing_page is true exactly when a fetched path returned a
\* page.
C30_PricingProbeStopsAtFirstPage ==
    pricing.op = "_analyze_pricing"
    => LET r == pricing.result
           n == Len(r.fetched)
           Page(i) == pricing.outcomes[i] = "page"
       IN  /\ n <= Len(common_paths)
           /\ r.fetched = SubSeq(common_paths, 1, n)
           /\ \A i \in 1..(n - 1) : ~Page(i)
           /\ pricing.launched => (n = Len(common_paths) \/ Page(n))
           /\ r.has_pricing_page <=> (\E i \in 1..n : Page(i))
           /\ r.pricing_url = IF n > 0 /\ Page(n)
                              THEN test_url(common_paths[n]) ELSE <<>>

\* C30, the case reached: /pricing gives an error, /plans raises,
\* /pricing-plans and /buy would both return a page
C30_Witness ==
    /\ pricing.op = "_analyze_pricing"
    /\ pricing.launched
    /\ pricing.outcomes = <<"error", "raises", "page", "page">>
    /\ pricing.result.has_pricing_page
    /\ Len(pricing.result.fetched) = 3

\* C36: on a VPNWebScraper with auto_rotate and a pool of at least two
\* endpoints, a failed request is followed by a rotation of the pool to the
\* next endpoint, and the request is retried through that endpoint.
C36_AutoRotateOnFailure ==
    (sent.op = "fetch_page" /\ sent.auto_rotate /\ Len(vpn_configs) >= 2
        /\ ~AttemptReturns(sent.ret))
    => /\ Len(sent.requests) = 2
       /\ sent.requests[2].idx = (sent.requests[1].idx + 1) % Len(vpn_configs)
       /\ sent.after[1] = sent.requests[2].idx
       /\ sent.requests[2].via = proxy_url(vpn_configs[sent.requests[2].idx + 1])

\* C40: a response returned by VPNSession.get has a successful status, on the
\* first-attempt path and on the rotate-and-retry path, and without
\* auto_rotate a failed request leaves current_vpn_index and active_vpn as
\* they were.
C40_GetReturnsSuccessOnly ==
    sent.op = "get"
    => /\ sent.ret # "raises" => sent.ret \notin HTTPErrorStatus
       /\ (~sent.auto_rotate /\ sent.ret = "raises")
            => /\ sent.after[1] = sent.requests[1].idx
               /\ sent.after[2] = sent.requests[1].active

\* C35: SafeCompetitorAnalyzer.analyze_website issues at most one physical
\* request per call, and its second read of the main page is served from the
\* cache, also when the cache write of the first fetch failed.
C35_AnalyzeOnePhysicalRequest ==
    last.op = "analyze_website"
    => /\ last.phys <= 1
       /\ last.second \in {"skipped", "cache"}

\* C33: every page operation of the rendered scrapers leaves no page open
\* that it opened, whether it returns or raises, and once the 'async with'
\* block is left, also through a failing entry, no driver, browser, context
\* or page is open.
C33_BrowserResourcesReleased ==
    /\ render.op \in {"scrape_page", "scrape_spa", "extract_structured_data",
                      "get_current_ip"}
         => render.pages = render.pages_before
    /\ render.phase \in {"exited", "entry_failed"}
         => /\ ~render.driver /\ ~render.browser /\ ~render.context
            /\ render.pages = 0

\* C34: a scrape_page call makes one navigation attempt and no more, and when
\* the navigation, the selector wait or the script evaluation fails the call
\* returns a result with an error field instead of raising.
C34_RenderFailureSurfaced ==
    render.op = "scrape_page"
    => /\ render.navigations <= 1
       /\ render.outcome # "new_page_fails" => render.navigations = 1
       /\ render.outcome \in {"goto_fails", "wait_fails", "script_fails"}
            => render.result = "error"

\* C34, the case reached: the selector never appeared on the proxy-bound
\* scraper
C34_Witness ==
    /\ render.op = "scrape_page"
    /\ render.cls = "vpn"
    /\ render.outcome = "wait_fails"
    /\ render.result = "error"
    /\ render.navigations = 1

\* C37: the title of an SEO analysis is flagged optimal exactly when its
\* length is between 30 and 60 inclusive, and the description exactly when
\* its length is between 120 and 160 inclusive.
C37_SeoOptimalRanges ==
    (pure.op = "analyze_seo" /\ ~pure.ret.error)
    => /\ pure.ret.title.optimal
            <=> (30 <= pure.title_length /\ pure.title_length <= 60)
       /\ pure.ret.description.optimal
            <=> (120 <= pure.description_length
                 /\ pure.description_length <= 160)
       /\ pure.title_length = 5 => ~pure.ret.title.optimal
       /\ pure.title_length = 45 => pure.ret.title.optimal

\* C37, the case reached: a title at the upper end of the range and a
\* description at the lower end, both flagged
C37_Witness ==
    /\ pure.op = "analyze_seo"
    /\ ~pure.ret.error
    /\ pure.title_length = 60
    /\ pure.description_length = 120
    /\ pure.ret.title.optimal
    /\ pure.ret.description.optimal

\* C38: when the basic analysis succeeded, the insights hold the thin-content
\* weakness exactly when the word count is below 300, the rich-content
\* strength exactly when it is above 1000, never both, the limited-social
\* weakness exactly when fewer than 2 platforms were found, and the pricing
\* strength and the pricing opportunity exactly when a pricing page was found.
C38_InsightRuleTable ==
    (pure.op = "_generate_insights" /\ ~pure.basic_error)
    => /\ "Thin content, lacks depth" \in pure.ret.weaknesses
            <=> pure.word_count < 300
       /\ "Rich content with good depth" \in pure.ret.strengths
            <=> pure.word_count > 1000
       /\ ~ /\ "Thin content, lacks depth" \in pure.ret.weaknesses
            /\ "Rich content with good depth" \in pure.ret.strengths
       /\ "Limited social media presence" \in pure.ret.weaknesses
            <=> pure.social < 2
       /\ "Clear pricing page available" \in pure.ret.strengths
            <=> pure.has_pricing_page
       /\ "Analyze pricing strategy for competitive positioning"
                \in pure.ret.opportunities
            <=> pure.has_pricing_page

\* C38, the case reached: 299 words, one platform and a pricing page
C38_Witness ==
    /\ pure.op = "_generate_insights"
    /\ ~pure.basic_error
    /\ pure.word_count = 299
    /\ pure.social = 1
    /\ pure.has_pricing_page
    /\ "Thin content, lacks depth" \in pure.ret.weaknesses
    /\ "Limited social media presence" \in pure.ret.weaknesses
    /\ "Clear pricing page available" \in pure.ret.strengths

\* C39: every known substring that occurs in the src of some script of the
\* page has its technology in the result of _detect_technologies, also when
\* one src holds several of the substrings.
C39_AllTechnologiesDetected ==
    pure.op = "_detect_technologies"
    => \A src \in pure.scripts : \A i \in DOMAIN KnownTechnologies :
          KnownTechnologies[i][1] \in src
              => KnownTechnologies[i][2] \in pure.ret

\* C31: running the extractors a second time on the same parsed document
\* gives the result of the first run.
C31_ExtractionIdempotent ==
    pure.op = "extract" => pure.second = pure.first

\* C32: when a step of full_analysis fails or the analysis is cancelled
\* part-way, the caller still gets the report, in which the sections completed
\* before keep their values and every other section is None or missing.
C32_InterruptedAnalysisReturnsReport ==
    (pure.op = "full_analysis" /\ pure.how # "done")
    => /\ pure.ret.returned
       /\ \A i \in DOMAIN AnalysisSteps :
            pure.ret.sections[i]
                = IF i < pure.at THEN "value"
                  ELSE IF i = Len(AnalysisSteps) THEN "absent" ELSE "None"

====
